---- MODULE Spec2Model ----
(***************************************************************************)
(* Model of the chat API's incremental sync stream                         *)
(* (app/services/event_service.py over the queries of app/db/synapse.py)   *)
(* and of its portal resolution (app/services/room_service.py over the     *)
(* bridge adapters of app/bridges), of message pagination                  *)
(* (app/services/message_service.py) and of the two room listings          *)
(* (get_rooms and get_rooms_filtered of app/services/room_service.py), of   *)
(* the adapters' room-kind classifiers, of the daily message statistics    *)
(* (app/services/stats_service.py) and of an outage of the canonical       *)
(* store.                                                                  *)
(*                                                                         *)
(* A room's events table is the sequence `store`: the event at index p has *)
(* stream_ordering p.  Time is counted in tenths of a second.              *)
(***************************************************************************)
EXTENDS Integers, Sequences, FiniteSets, TLC

\* ---------------------------------------------------------------- bounds
\* Largest stream position the writer produces.
MaxPos == 3
\* Largest cursor a client supplies.
MaxSince == 1
\* Events the writer produces in the timed and the fair specification.
MaxTimedWrites == 2
\* Rooms of the canonical store.
MaxRooms == 2
\* Largest last-message or edit timestamp.
MaxTs == 1
\* Largest in-range limit a caller of the message endpoint supplies.
MaxLimit == 2
\* Largest page a caller of a listing endpoint supplies.
MaxPage == 2

\* Largest discord channel type code a portal row holds.
MaxDcType == 15

\* ------------------------------------------------------ program constants
\* POLL_INTERVAL = 1.0 s
POLL_INTERVAL == 10
\* asyncio.sleep(0.3) after a tick that found events
SHORT_INTERVAL == 3
\* HEARTBEAT_INTERVAL = 15.0 s
HEARTBEAT_INTERVAL == 150
\* get_new_events(..., limit: int = 100)
NEW_EVENTS_LIMIT == 100

VARIABLES
    store,          \* events of the room, index = stream_ordering
    pc,             \* position of stream_room_events
    since,          \* the cursor the client supplied
    last_stream,    \* the generator's local cursor
    events_found,   \* the tick's events_found flag
    batch,          \* rows of the current query not yet yielded
    emitted,        \* mutation events yielded so far: <<[pos, kind]>>
    disconnected,   \* what request.is_disconnected() answers
    elapsed,        \* time.monotonic() - last_heartbeat, saturated
    hbEmitted,      \* the current tick yielded a heartbeat
    lastSleep,      \* the interval of the sleep that just ended, 0 in a tick
    tickQueries,    \* store queries issued by the current tick
    startLen,       \* observer: length of the store when the stream started
    sinceMutation,  \* observer: time since a mutation was last yielded
    sinceHb,        \* observer: time since a heartbeat was last yielded
    registry,       \* BridgeRegistry.adapters: the active slugs, in order
    portals,        \* each bridge store's portal table: the rooms it holds
    resp,           \* the most recent portal-resolution call and its outcome
    mresp,          \* the most recent message request and its outcome
    portal_cols,    \* the columns of each bridge store's portal rows
    db,             \* the canonical store's room tables, per room
    lresp,          \* the most recent room-listing request and its outcome
    cresp,          \* the most recent room-kind classification
    daily,          \* the canonical store's message counts: room, sender, day
    sresp,          \* the most recent message-stats request and its outcome
    synapse_up,     \* the canonical store answers queries
    query_raised    \* observer: a query of the stream raised an exception

streamVars == <<pc, since, last_stream, events_found, batch, emitted,
                disconnected, elapsed, hbEmitted, lastSleep, tickQueries,
                startLen, sinceMutation, sinceHb>>

portalVars == <<registry, portals, resp>>

messageVars == <<mresp>>

listingVars == <<portal_cols, db, lresp>>

serviceVars == <<cresp, daily, sresp, synapse_up, query_raised>>

requestVars == <<messageVars, listingVars, serviceVars>>

\* No classification and no stats request is outstanding, the stats tables
\* are empty and the canonical store answers.
ServicesIdle ==
    /\ cresp = [op |-> "none"]
    /\ daily = <<>>
    /\ sresp = [op |-> "none"]
    /\ synapse_up = TRUE
    /\ query_raised = FALSE

vars == <<store, streamVars, portalVars, requestVars>>

\* ------------------------------------------------------------- helpers
Min(a, b) == IF a < b THEN a ELSE b

Max(a, b) == IF a > b THEN a ELSE b

Take(s, n) == SubSeq(s, 1, Min(n, Len(s)))

Positions(st) == [i \in 1..Len(st) |-> i]

SetMax(S) == CHOOSE x \in S : \A y \in S : y <= x

SetMin(S) == CHOOSE x \in S : \A y \in S : x <= y

Range(s) == {s[i] : i \in 1..Len(s)}

\* ------------------------------------------------------------- strings
\* A string is the sequence of its characters' code points.
\* str.isdigit() for the decimal digits
isdigit(s) == s # <<>> /\ \A i \in 1..Len(s) : s[i] \in 48..57

\* str.lower() over the Latin and the Russian alphabet
lower(s) ==
    [i \in 1..Len(s) |->
        IF s[i] \in 65..90 \/ s[i] \in 1040..1071 THEN s[i] + 32 ELSE s[i]]

\* str.strip(): leading and trailing blanks, tabs and line ends removed
strip(s) ==
    LET inked == {i \in 1..Len(s) : s[i] \notin {32, 9, 10, 13}}
    IN IF inked = {} THEN <<>> ELSE SubSeq(s, SetMin(inked), SetMax(inked))

\* pattern in s
Contains(pattern, s) ==
    \E i \in 1..(Len(s) - Len(pattern) + 1) :
        SubSeq(s, i, i + Len(pattern) - 1) = pattern

\* s LIKE 'prefix%'
StartsWith(prefix, s) ==
    Len(s) >= Len(prefix) /\ SubSeq(s, 1, Len(prefix)) = prefix

\* a < b for two strings: by code point, a proper prefix first
StrLess(a, b) ==
    \E k \in 1..(Min(Len(a), Len(b)) + 1) :
        /\ \A i \in 1..(k - 1) : a[i] = b[i]
        /\ \/ k > Len(a) /\ k <= Len(b)
           \/ k <= Len(a) /\ k <= Len(b) /\ a[k] < b[k]

\* _SYSTEM_MESSAGE_PATTERNS, in Russian "now in max" (the brand in Latin
\* and in Cyrillic letters), "now in max" and "write something"
SYSTEM_MESSAGE_PATTERNS ==
    {<<1090, 1077, 1087, 1077, 1088, 1100, 32, 1074, 32, 109, 97, 120>>,
     <<1090, 1077, 1087, 1077, 1088, 1100, 32, 1074, 32, 1084, 1072, 1082,
       1089>>,
     <<110, 111, 119, 32, 105, 110, 32, 109, 97, 120>>,
     <<1085, 1072, 1087, 1080, 1096, 1080, 1090, 1077, 32, 1095, 1090,
       1086, 45, 1085, 1080, 1073, 1091, 1076, 1100>>}

\* "[Image]", the body get_last_messages gives an image without one
IMAGE_PLACEHOLDER == <<91, 73, 109, 97, 103, 101, 93>>

\* The Russian prefix of f"Kontakt #{name}"
CONTACT_PREFIX == <<1050, 1086, 1085, 1090, 1072, 1082, 1090, 32, 35>>

\* The exclusion patterns of get_room_members_display: '@conn-%', '%bot:%'
CONN_PREFIX == <<64, 99, 111, 110, 110, 45>>

BOT_INFIX == <<98, 111, 116, 58>>

\* The room identifier of room r as a string: "!" and its number.
RoomIdStr(r) == <<33, 48 + r>>

\* ------------------------------------------------------ canonical store
\* An event row: its type and the event its content relates to or redacts
\* (0 = the field is absent / NULL).
Kinds == {"message", "reaction", "edit", "redaction"}

\* NOT EXISTS (SELECT 1 FROM redactions r WHERE r.redacts = e.event_id)
IsRedacted(st, p) ==
    \E q \in 1..Len(st) : st[q].kind = "redaction" /\ st[q].target = p

\* get_new_events: m.room.message rows above the cursor that are neither
\* redacted nor edits, ascending, at most `limit` of them.
get_new_events(st, c) ==
    Take(SelectSeq(Positions(st),
                   LAMBDA p : /\ p > c
                              /\ st[p].kind = "message"
                              /\ ~IsRedacted(st, p)),
         NEW_EVENTS_LIMIT)

\* get_new_reactions comparing with >= : the row at the cursor is selected
\* again.
get_new_reactions_inclusive(st, c) ==
    SelectSeq(Positions(st),
              LAMBDA p : /\ p >= c
                         /\ st[p].kind = "reaction"
                         /\ ~IsRedacted(st, p)
                         /\ st[p].target # 0)

\* get_new_reactions: m.reaction rows above the cursor, not redacted, that
\* carry a target and a key.
get_new_reactions(st, c) ==
    SelectSeq(Positions(st),
              LAMBDA p : /\ p > c
                         /\ st[p].kind = "reaction"
                         /\ ~IsRedacted(st, p)
                         /\ st[p].target # 0)

\* get_new_edits: m.replace rows above the cursor, not redacted, that carry
\* a target.
get_new_edits(st, c) ==
    SelectSeq(Positions(st),
              LAMBDA p : /\ p > c
                         /\ st[p].kind = "edit"
                         /\ ~IsRedacted(st, p)
                         /\ st[p].target # 0)

\* get_new_redactions: m.room.redaction rows above the cursor whose
\* redacted event id is not NULL.
get_new_redactions(st, c) ==
    SelectSeq(Positions(st),
              LAMBDA p : /\ p > c
                         /\ st[p].kind = "redaction"
                         /\ st[p].target # 0)

\* The events a writer may append at position pos: a message, or a
\* reaction / edit / redaction relating to an earlier position or to none.
WriterEvents(pos) ==
    {[kind |-> "message", target |-> 0]} \cup
    {[kind |-> k, target |-> t] :
        k \in {"reaction", "edit", "redaction"}, t \in 0..(pos - 1)}

\* The canonical store persists one more event at the next stream position.
Write ==
    /\ Len(store) < MaxPos
    /\ \E e \in WriterEvents(Len(store) + 1) : store' = Append(store, e)
    /\ UNCHANGED streamVars
    /\ UNCHANGED <<portalVars, requestVars>>

\* ------------------------------------------------- stream_room_events
\* The request arrives: last_stream = since, last_heartbeat = now.
Start ==
    /\ pc = "idle"
    /\ \E c \in 0..MaxSince :
        /\ since' = c
        /\ last_stream' = c
    /\ pc' = "check"
    /\ elapsed' = 0
    /\ startLen' = Len(store)
    /\ sinceMutation' = 0
    /\ sinceHb' = 0
    /\ UNCHANGED <<store, events_found, batch, emitted, disconnected,
                   hbEmitted, lastSleep, tickQueries>>
    /\ UNCHANGED <<portalVars, requestVars>>

\* The client goes away.
Disconnect ==
    /\ pc \notin {"idle", "done"}
    /\ ~disconnected
    /\ disconnected' = TRUE
    /\ UNCHANGED <<store, pc, since, last_stream, events_found, batch,
                   emitted, elapsed, hbEmitted, lastSleep, tickQueries,
                   startLen, sinceMutation, sinceHb>>
    /\ UNCHANGED <<portalVars, requestVars>>

\* The generator is cancelled at an await: CancelledError is caught and the
\* function returns.
Cancel ==
    /\ pc \notin {"idle", "done"}
    /\ pc' = "done"
    /\ batch' = <<>>
    /\ UNCHANGED <<store, since, last_stream, events_found, emitted,
                   disconnected, elapsed, hbEmitted, lastSleep, tickQueries,
                   startLen, sinceMutation, sinceHb>>
    /\ UNCHANGED <<portalVars, requestVars>>

\* The loop head without the disconnection check.
Check_no_break ==
    /\ pc = "check"
    /\ pc' = "messages"
    /\ events_found' = FALSE
    /\ hbEmitted' = FALSE
    /\ tickQueries' = 0
    /\ lastSleep' = 0
    /\ UNCHANGED <<store, since, last_stream, batch, emitted, disconnected,
                   elapsed, startLen, sinceMutation, sinceHb>>
    /\ UNCHANGED <<portalVars, requestVars>>

\* if await request.is_disconnected(): break ; events_found = False
Check ==
    /\ pc = "check"
    /\ pc' = IF disconnected THEN "done" ELSE "messages"
    /\ events_found' = FALSE
    /\ hbEmitted' = FALSE
    /\ tickQueries' = 0
    /\ lastSleep' = 0
    /\ UNCHANGED <<store, since, last_stream, batch, emitted, disconnected,
                   elapsed, startLen, sinceMutation, sinceHb>>
    /\ UNCHANGED <<portalVars, requestVars>>

\* The flag raised by the message query only.
AfterQuery_messages_only(rows, yielding, next) ==
    /\ synapse_up
    /\ batch' = rows
    /\ events_found' = (events_found \/ (rows # <<>> /\ yielding = "y_message"))
    /\ pc' = IF rows # <<>> THEN yielding ELSE next
    /\ tickQueries' = tickQueries + 1
    /\ UNCHANGED <<store, since, last_stream, emitted, disconnected, elapsed,
                   hbEmitted, lastSleep, startLen, sinceMutation, sinceHb>>
    /\ UNCHANGED <<portalVars, requestVars>>

\* The state after a per-kind query returned `rows`: a non-empty result sets
\* events_found and is yielded row by row, an empty one falls through to
\* the statement at `next`.  The query returns only while the canonical
\* store answers.
AfterQuery(rows, yielding, next) ==
    /\ synapse_up
    /\ batch' = rows
    /\ events_found' = (events_found \/ rows # <<>>)
    /\ pc' = IF rows # <<>> THEN yielding ELSE next
    /\ tickQueries' = tickQueries + 1
    /\ UNCHANGED <<store, since, last_stream, emitted, disconnected, elapsed,
                   hbEmitted, lastSleep, startLen, sinceMutation, sinceHb>>
    /\ UNCHANGED <<portalVars, requestVars>>

\* 1. New messages
QueryMessages ==
    /\ pc = "messages"
    /\ AfterQuery(get_new_events(store, last_stream), "y_message", "reactions")

\* 2. New reactions
QueryReactions ==
    /\ pc = "reactions"
    /\ AfterQuery(get_new_reactions(store, last_stream), "y_reaction", "edits")

\* 3. Edits
QueryEdits ==
    /\ pc = "edits"
    /\ AfterQuery(get_new_edits(store, last_stream), "y_edit", "redactions")

\* 4. Redactions
QueryRedactions ==
    /\ pc = "redactions"
    /\ AfterQuery(get_new_redactions(store, last_stream), "y_redact", "heartbeat")

\* The canonical store stops answering: every query on its pool raises
\* from now on.
SynapseDown ==
    /\ synapse_up
    /\ synapse_up' = FALSE
    /\ UNCHANGED <<store, streamVars, portalVars, messageVars, listingVars,
                   cresp, daily, sresp, query_raised>>

\* A per-kind query raises: `except Exception: logger.exception(...)` logs
\* the error and the generator returns, so the response ends as it does
\* after a disconnection.
QueryRaises ==
    /\ pc \in {"messages", "reactions", "edits", "redactions"}
    /\ ~synapse_up
    /\ pc' = "done"
    /\ batch' = <<>>
    /\ query_raised' = TRUE
    /\ UNCHANGED <<store, since, last_stream, events_found, emitted,
                   disconnected, elapsed, hbEmitted, lastSleep, tickQueries,
                   startLen, sinceMutation, sinceHb>>
    /\ UNCHANGED <<portalVars, messageVars, listingVars, cresp, daily, sresp,
                   synapse_up>>

YieldKind(p) ==
    CASE p = "y_message" -> "message"
      [] p = "y_reaction" -> "reaction"
      [] p = "y_edit" -> "edit"
      [] OTHER -> "redact"

AfterYield(p) ==
    CASE p = "y_message" -> "reactions"
      [] p = "y_reaction" -> "edits"
      [] p = "y_edit" -> "redactions"
      [] OTHER -> "heartbeat"

\* The cursor left where it was after a yield.
AdvanceCursor_stale(c, p) == c

\* last_stream = max(last_stream, row["stream_ordering"])
AdvanceCursor(c, p) == Max(c, p)

\* yield one row of the current result and advance the cursor.
Yield ==
    /\ pc \in {"y_message", "y_reaction", "y_edit", "y_redact"}
    /\ batch # <<>>
    /\ emitted' = Append(emitted, [pos |-> Head(batch), kind |-> YieldKind(pc)])
    /\ last_stream' = AdvanceCursor(last_stream, Head(batch))
    /\ batch' = Tail(batch)
    /\ pc' = IF Tail(batch) = <<>> THEN AfterYield(pc) ELSE pc
    /\ sinceMutation' = 0
    /\ UNCHANGED <<store, since, events_found, disconnected, elapsed,
                   hbEmitted, lastSleep, tickQueries, startLen, sinceHb>>
    /\ UNCHANGED <<portalVars, requestVars>>

\* The heartbeat compared against the poll interval.
HeartbeatDue_poll(e) == e >= POLL_INTERVAL

\* if now - last_heartbeat >= HEARTBEAT_INTERVAL
HeartbeatDue(e) == e >= HEARTBEAT_INTERVAL

\* Heartbeat: yield the comment and set last_heartbeat = now when due.
Heartbeat ==
    /\ pc = "heartbeat"
    /\ hbEmitted' = HeartbeatDue(elapsed)
    /\ elapsed' = IF HeartbeatDue(elapsed) THEN 0 ELSE elapsed
    /\ pc' = "sleep"
    /\ UNCHANGED <<store, since, last_stream, events_found, batch, emitted,
                   disconnected, lastSleep, tickQueries, startLen,
                   sinceMutation, sinceHb>>
    /\ UNCHANGED <<portalVars, requestVars>>

\* Adaptive sleep: if events were found, poll sooner
SleepInterval(found) == IF found THEN SHORT_INTERVAL ELSE POLL_INTERVAL

\* await asyncio.sleep(interval) returns `late` after the interval ended.
Sleep(late) ==
    /\ pc = "sleep"
    /\ lastSleep' = SleepInterval(events_found)
    /\ elapsed' = Min(elapsed + SleepInterval(events_found) + late,
                      HEARTBEAT_INTERVAL)
    /\ sinceMutation' = Min(sinceMutation + SleepInterval(events_found) + late,
                            HEARTBEAT_INTERVAL)
    /\ sinceHb' = Min((IF hbEmitted THEN 0 ELSE sinceHb)
                        + SleepInterval(events_found) + late,
                      HEARTBEAT_INTERVAL)
    /\ pc' = "check"
    /\ UNCHANGED <<store, since, last_stream, events_found, batch, emitted,
                   disconnected, hbEmitted, tickQueries, startLen>>
    /\ UNCHANGED <<portalVars, requestVars>>

\* The wake-up is late by a whole heartbeat interval (a busy event loop):
\* the clock then has two values, below and at the heartbeat threshold.
SleepLate == Sleep(HEARTBEAT_INTERVAL)

\* The wake-up is on time.
SleepOnTime == Sleep(0)


\* --------------------------------------------------- message pagination
\* Python's None for an optional query parameter or cursor.  The cursors a
\* caller supplies are stream positions, which are never negative.
None == -1

\* limit: int = Query(50, ge=1, le=200)
LIMIT_MAX == 200

\* The limits a caller supplies: below, inside and above the accepted range.
Limits == 0..MaxLimit \cup {LIMIT_MAX, LIMIT_MAX + 1}

\* The before / after values a caller supplies.
CursorInputs == {None} \cup 1..(MaxPos + 1)

\* messages.reverse()
Reverse(s) == [i \in 1..Len(s) |-> s[Len(s) + 1 - i]]

\* The events a writer of messages may append at position pos: a message,
\* an edit (an m.room.message relating to an earlier event by m.replace,
\* with its origin_server_ts) or a redaction of an earlier event.  The body
\* of the event at position p is written p: every event has its own text.
MessageWriterEvents(pos) ==
    {[kind |-> "message", target |-> 0, ts |-> 0]} \cup
    {[kind |-> "edit", target |-> t, ts |-> s] :
        t \in 1..(pos - 1), s \in 0..MaxTs} \cup
    {[kind |-> "redaction", target |-> t, ts |-> 0] : t \in 1..(pos - 1)}

\* ORDER BY e.stream_ordering DESC whatever the parameters.
QueryOrder_desc(after_stream_ordering) == "DESC"

\* order = "ASC" for an "after" query, "DESC" otherwise
QueryOrder(after_stream_ordering) ==
    IF after_stream_ordering # None THEN "ASC" ELSE "DESC"

\* get_room_messages without the reversal of a descending result.
get_room_messages_no_reverse(st, limit, before_stream_ordering, after_stream_ordering) ==
    LET selected ==
            SelectSeq(Positions(st),
                      LAMBDA p :
                        /\ st[p].kind \in {"message", "edit"}
                        /\ ~IsRedacted(st, p)
                        /\ (before_stream_ordering # None
                                => p < before_stream_ordering)
                        /\ (after_stream_ordering # None
                                => p > after_stream_ordering))
        order == QueryOrder(after_stream_ordering)
        messages == IF order = "ASC" THEN Take(selected, limit)
                    ELSE Take(Reverse(selected), limit)
    IN [messages |-> messages,
        min_stream |-> IF messages = <<>> THEN None
                       ELSE SetMin(Range(messages)),
        max_stream |-> IF messages = <<>> THEN None
                       ELSE SetMax(Range(messages))]

\* get_room_messages: the m.room.message rows of the room that are not
\* redacted, below `before` and above `after` where those are given, the
\* first `limit` of them in the query's order, returned oldest first, with
\* the minimum and maximum stream position of the rows returned.
get_room_messages(st, limit, before_stream_ordering, after_stream_ordering) ==
    LET selected ==
            SelectSeq(Positions(st),
                      LAMBDA p :
                        /\ st[p].kind \in {"message", "edit"}
                        /\ ~IsRedacted(st, p)
                        /\ (before_stream_ordering # None
                                => p < before_stream_ordering)
                        /\ (after_stream_ordering # None
                                => p > after_stream_ordering))
        order == QueryOrder(after_stream_ordering)
        rows == IF order = "ASC" THEN Take(selected, limit)
                ELSE Take(Reverse(selected), limit)
        messages == IF order = "DESC" THEN Reverse(rows) ELSE rows
    IN [messages |-> messages,
        min_stream |-> IF messages = <<>> THEN None
                       ELSE SetMin(Range(messages)),
        max_stream |-> IF messages = <<>> THEN None
                       ELSE SetMax(Range(messages))]

\* The rows get_edits_for_messages selects for one event id: m.replace
\* events relating to it that are not redacted.
EditRows(st, id) ==
    {q \in 1..Len(st) : /\ st[q].kind = "edit"
                        /\ st[q].target = id
                        /\ ~IsRedacted(st, q)}

\* get_edits_for_messages keeping the edit with the oldest timestamp.
get_edits_for_messages_oldest(st, event_ids) ==
    LET edited == {id \in event_ids : EditRows(st, id) # {}}
    IN {m \in [edited -> 1..Len(st)] :
            \A id \in edited :
                /\ m[id] \in EditRows(st, id)
                /\ \A q \in EditRows(st, id) : st[m[id]].ts <= st[q].ts}

\* get_edits_for_messages: DISTINCT ON (relates_to) ... ORDER BY relates_to,
\* origin_server_ts DESC keeps, for each event id, one row with the greatest
\* timestamp; which one among equal timestamps is the store's choice, so the
\* operator is the set of maps the call may return.  A map sends an event
\* id to the edit whose m.new_content body is the edited_body.
get_edits_for_messages(st, event_ids) ==
    LET edited == {id \in event_ids : EditRows(st, id) # {}}
    IN {m \in [edited -> 1..Len(st)] :
            \A id \in edited :
                /\ m[id] \in EditRows(st, id)
                /\ \A q \in EditRows(st, id) : st[q].ts <= st[m[id]].ts}

\* edit = edits_map.get(event_id); body = edit["edited_body"] if edit else
\* msg["body"]; is_edited = edit is not None
MessageItem(p, edits_map) ==
    [event_id |-> p,
     stream_ordering |-> p,
     body |-> IF p \in DOMAIN edits_map THEN edits_map[p] ELSE p,
     is_edited |-> p \in DOMAIN edits_map]

\* get_messages returning the maximum as before_cursor and the minimum as
\* after_cursor.
get_messages_swapped(st, limit, before, after, edits_map) ==
    LET res == get_room_messages(st, limit, before, after)
    IN IF res.messages = <<>>
       THEN [messages |-> <<>>, has_more |-> FALSE,
             before_cursor |-> None, after_cursor |-> after, queries |-> 1]
       ELSE [messages |-> [i \in 1..Len(res.messages) |->
                             MessageItem(res.messages[i], edits_map)],
             has_more |-> (Len(res.messages) = limit),
             before_cursor |-> res.max_stream,
             after_cursor |-> res.min_stream,
             queries |-> 4]

\* get_messages: one query for the page and, for a page that is not empty,
\* one each for the sender profiles, the reactions and the edits.
get_messages(st, limit, before, after, edits_map) ==
    LET res == get_room_messages(st, limit, before, after)
    IN IF res.messages = <<>>
       THEN [messages |-> <<>>, has_more |-> FALSE,
             before_cursor |-> None, after_cursor |-> after, queries |-> 1]
       ELSE [messages |-> [i \in 1..Len(res.messages) |->
                             MessageItem(res.messages[i], edits_map)],
             has_more |-> (Len(res.messages) = limit),
             before_cursor |-> res.min_stream,
             after_cursor |-> res.max_stream,
             queries |-> 4]

\* The edits maps the store may answer for the page of a request.
PageEdits(st, limit, before, after) ==
    get_edits_for_messages(
        st, Range(get_room_messages(st, limit, before, after).messages))

\* The event ids of a response's messages, in order.
EventIds(res) == [i \in 1..Len(res.messages) |-> res.messages[i].event_id]

\* No message request is outstanding.
NoMResp ==
    [op |-> "none", status |-> "", limit |-> 0, before |-> None,
     after |-> None, queries |-> 0, messages |-> <<>>, has_more |-> FALSE,
     before_cursor |-> None, after_cursor |-> None,
     first |-> <<>>, preceding |-> <<>>]

MessagesIdle == mresp = NoMResp

\* The writer of the message store appends one event.
WriteMessage ==
    /\ mresp.op = "none"
    /\ Len(store) < MaxPos
    /\ \E e \in MessageWriterEvents(Len(store) + 1) :
        store' = Append(store, e)
    /\ UNCHANGED <<streamVars, portalVars, messageVars, listingVars, serviceVars>>

\* The caller has taken the outcome of its message request.
DeliverMessages ==
    /\ mresp.op # "none"
    /\ mresp' = NoMResp
    /\ UNCHANGED <<store, streamVars, portalVars, listingVars, serviceVars>>

\* GET /v1/rooms/{room_id}/messages: the framework rejects a limit outside
\* 1..200 before the handler runs; before and after are any integers.  The
\* first query raises when the canonical store does not answer, and the
\* request fails.
CallGetMessages ==
    /\ mresp.op = "none"
    /\ \E limit \in Limits, before \in CursorInputs, after \in CursorInputs :
        IF limit < 1 \/ limit > LIMIT_MAX
        THEN mresp' = [NoMResp EXCEPT !.op = "get_messages",
                                      !.status = "rejected",
                                      !.limit = limit,
                                      !.before = before,
                                      !.after = after]
        ELSE IF ~synapse_up
        THEN mresp' = [NoMResp EXCEPT !.op = "get_messages",
                                      !.status = "error",
                                      !.limit = limit,
                                      !.before = before,
                                      !.after = after]
        ELSE \E edits_map \in PageEdits(store, limit, before, after) :
                LET res == get_messages(store, limit, before, after, edits_map)
                IN mresp' = [NoMResp EXCEPT !.op = "get_messages",
                                            !.status = "ok",
                                            !.limit = limit,
                                            !.before = before,
                                            !.after = after,
                                            !.queries = res.queries,
                                            !.messages = res.messages,
                                            !.has_more = res.has_more,
                                            !.before_cursor = res.before_cursor,
                                            !.after_cursor = res.after_cursor]
    /\ UNCHANGED <<store, streamVars, portalVars, listingVars, serviceVars>>

\* The message step of a stream tick with its payloads: the new messages
\* above the cursor, each with the edit overlay of get_edits_for_messages.
CallStreamMessages ==
    /\ mresp.op = "none"
    /\ \E c \in 0..MaxSince :
        LET new_messages == get_new_events(store, c)
        IN \E edits_map \in get_edits_for_messages(store, Range(new_messages)) :
            mresp' = [NoMResp EXCEPT
                        !.op = "stream_messages",
                        !.status = "ok",
                        !.after = c,
                        !.queries = IF new_messages = <<>> THEN 1 ELSE 4,
                        !.messages = [i \in 1..Len(new_messages) |->
                                        MessageItem(new_messages[i], edits_map)]]
    /\ UNCHANGED <<store, streamVars, portalVars, listingVars, serviceVars>>

\* A client pages backwards and then forwards with no write in between:
\* the page before X, the page before that page's before_cursor, and the
\* page after the after_cursor returned for the latter.
CallPageBackAndForth ==
    /\ mresp.op = "none"
    /\ \E limit \in 1..MaxLimit, before \in CursorInputs \ {None} :
        LET AnyEdits(b, a) == CHOOSE m \in PageEdits(store, limit, b, a) : TRUE
            first == get_messages(store, limit, before, None,
                                  AnyEdits(before, None))
            preceding == get_messages(store, limit, first.before_cursor, None,
                                      AnyEdits(first.before_cursor, None))
            again == get_messages(store, limit, None, preceding.after_cursor,
                                  AnyEdits(None, preceding.after_cursor))
        IN mresp' = [NoMResp EXCEPT !.op = "page_back_and_forth",
                                    !.status = "ok",
                                    !.limit = limit,
                                    !.before = before,
                                    !.after = preceding.after_cursor,
                                    !.queries = first.queries + preceding.queries
                                                    + again.queries,
                                    !.first = EventIds(first),
                                    !.preceding = EventIds(preceding),
                                    !.messages = again.messages,
                                    !.has_more = again.has_more,
                                    !.before_cursor = again.before_cursor,
                                    !.after_cursor = again.after_cursor]
    /\ UNCHANGED <<store, streamVars, portalVars, listingVars, serviceVars>>

\* ------------------------------------------------------ bridge adapters
Rooms == 1..MaxRooms

\* ADAPTER_CLASSES: the slugs that have an adapter class.
AdapterSlugs == {"telegram", "whatsapp", "max"}

\* The slugs a configuration may name; "discord" has no adapter class.
ConfigSlugs == AdapterSlugs \cup {"discord"}

\* BridgeRegistry.init: an adapter for every available bridge, in the order
\* of the pools, that has a class and a pool.
BridgeRegistry_init(available_bridges) ==
    SelectSeq(available_bridges, LAMBDA slug : slug \in AdapterSlugs)

\* The rooms of set S as the rows of a query, ascending.
RowsOf(S) == SelectSeq([i \in 1..MaxRooms |-> i], LAMBDA r : r \in S)

\* The columns of a portal row that no scenario sets.
DefaultRow ==
    [remote_id |-> <<49>>, kind |-> "user", megagroup |-> FALSE,
     is_bot |-> FALSE]

BridgePortalInfo(room_id, remote_id, room_type, bridge_slug) ==
    [room_id |-> room_id, remote_id |-> remote_id, room_type |-> room_type,
     bridge_slug |-> bridge_slug]

\* _resolve_type of the telegram adapter
resolve_type(peer_type, megagroup, is_bot) ==
    CASE peer_type = "user" -> IF is_bot THEN "bot" ELSE "dm"
      [] peer_type = "chat" -> "group"
      [] peer_type = "channel" -> IF megagroup THEN "group" ELSE "channel"
      [] OTHER -> "dm"

\* _resolve_type_mega of the whatsapp adapter; the JID patterns are
\* "@g.us", "@newsletter" and "@broadcast".
resolve_type_mega(chat_id, room_type) ==
    CASE room_type \in {"group", "community"} -> "group"
      [] room_type \in {"channel", "newsletter", "broadcast"} -> "channel"
      [] room_type \in {"dm", ""} ->
            IF Contains(<<64, 103, 46, 117, 115>>, chat_id) THEN "group"
            ELSE IF \/ Contains(<<64, 110, 101, 119, 115, 108, 101, 116, 116,
                                  101, 114>>, chat_id)
                    \/ Contains(<<64, 98, 114, 111, 97, 100, 99, 97, 115,
                                  116>>, chat_id)
                 THEN "channel"
                 ELSE "dm"
      [] OTHER -> "dm"

\* _resolve_type of the discord adapter; dc_type is None for a NULL column.
resolve_type_discord(dc_type) ==
    IF dc_type = 1 THEN "dm"
    ELSE IF dc_type = 3 THEN "group"
    ELSE "channel"

\* _resolve_type of the googlechat adapter; other_user_id is <<>> where the
\* code has None or the empty string.
resolve_type_googlechat(gcid, other_user_id) ==
    IF other_user_id # <<>> THEN "dm" ELSE "group"

\* _resolve_type of the megabridge adapters (gmessages, facebook, instagram,
\* twitter, gvoice)
resolve_type_gmessages(room_type) ==
    CASE room_type \in {"group", "community"} -> "group"
      [] room_type \in {"channel", "broadcast", "newsletter"} -> "channel"
      [] OTHER -> "dm"

\* The source values of a portal row, per adapter variant: the telegram
\* peer type with its flags, the whatsapp room_type with the chat JID
\* ("7@s.whatsapp.net", "7@g.us", "7@newsletter", "7@broadcast", "7@lid",
\* "7"), the discord type code or NULL, the googlechat other_user_id, the
\* megabridge room_type, and a max row.
ClassifierInputs ==
    LET row == [variant |-> "", code |-> "", chat_id |-> <<>>,
                dc_type |-> None, megagroup |-> FALSE, is_bot |-> FALSE,
                other_user_id |-> <<>>]
        jids == {<<55, 64, 115, 46, 119, 104, 97, 116, 115, 97, 112, 112, 46,
                   110, 101, 116>>,
                 <<55, 64, 103, 46, 117, 115>>,
                 <<55, 64, 110, 101, 119, 115, 108, 101, 116, 116, 101, 114>>,
                 <<55, 64, 98, 114, 111, 97, 100, 99, 97, 115, 116>>,
                 <<55, 64, 108, 105, 100>>,
                 <<55>>}
        room_types == {"group", "community", "channel", "newsletter",
                       "broadcast", "dm", "", "status"}
    IN {[row EXCEPT !.variant = "telegram", !.code = c, !.megagroup = m,
                    !.is_bot = b] :
            c \in {"user", "chat", "channel", "", "supergroup", "bot"},
            m \in BOOLEAN, b \in BOOLEAN}
       \cup {[row EXCEPT !.variant = "whatsapp", !.code = c, !.chat_id = j] :
                c \in room_types, j \in jids}
       \cup {[row EXCEPT !.variant = "discord", !.dc_type = t] :
                t \in {None} \cup 0..MaxDcType}
       \cup {[row EXCEPT !.variant = "googlechat", !.chat_id = g,
                         !.other_user_id = u] :
                g \in {<<100, 109, 58, 49>>, <<115, 112, 97, 99, 101, 58, 49>>},
                u \in {<<>>, <<117, 49>>}}
       \cup {[row EXCEPT !.variant = "gmessages", !.code = c] : c \in room_types}
       \cup {[row EXCEPT !.variant = "max"]}

\* The room_type a variant's get_portals computes for a portal row;
\* MaxAdapter passes the literal "dm".
RoomKind(v) ==
    CASE v.variant = "telegram" -> resolve_type(v.code, v.megagroup, v.is_bot)
      [] v.variant = "whatsapp" -> resolve_type_mega(v.chat_id, v.code)
      [] v.variant = "discord" -> resolve_type_discord(v.dc_type)
      [] v.variant = "googlechat" ->
            resolve_type_googlechat(v.chat_id, v.other_user_id)
      [] v.variant = "gmessages" -> resolve_type_gmessages(v.code)
      [] OTHER -> "dm"

\* An adapter classifies one portal row.
CallResolveType ==
    /\ \E v \in ClassifierInputs :
        cresp' = [op |-> "resolve_type", source |-> v, room_type |-> RoomKind(v)]
    /\ UNCHANGED <<store, streamVars, portalVars, messageVars, listingVars,
                   daily, sresp, synapse_up, query_raised>>

Ok(infos) == [ok |-> TRUE, error |-> "", infos |-> infos]

Raised(e) == [ok |-> FALSE, error |-> e, infos |-> <<>>]

\* The portal query without its WHERE clause.
PortalRows_unfiltered(table, room_ids) == RowsOf(table)

\* SELECT ... FROM portal p WHERE p.mxid = ANY($1)
PortalRows(table, room_ids) == RowsOf(table \cap room_ids)

\* TelegramAdapter.get_portals
TelegramAdapter_get_portals(table, room_ids) ==
    LET rows == PortalRows(table, room_ids)
    IN Ok([i \in 1..Len(rows) |->
            LET r == portal_cols["telegram"][rows[i]]
            IN BridgePortalInfo(rows[i], r.remote_id,
                                resolve_type(r.kind, r.megagroup, r.is_bot),
                                "telegram")])

\* WhatsAppAdapter.get_portals
WhatsAppAdapter_get_portals(table, room_ids) ==
    LET rows == PortalRows(table, room_ids)
    IN Ok([i \in 1..Len(rows) |->
            LET r == portal_cols["whatsapp"][rows[i]]
            IN BridgePortalInfo(rows[i], r.remote_id,
                                resolve_type_mega(r.remote_id, r.kind),
                                "whatsapp")])

\* MaxAdapter.get_portals: the constructor is called with display_name=,
\* a keyword BridgePortalInfo.__init__ does not take, for the first row.
MaxAdapter_get_portals(table, room_ids) ==
    LET rows == PortalRows(table, room_ids)
    IN IF rows = <<>> THEN Ok(<<>>) ELSE Raised("TypeError")

\* adapter.get_portals(room_ids) of the adapter registered for slug; the
\* query of an adapter in `failing` fails in the store.
get_portals(slug, tables, room_ids, failing) ==
    IF slug \in failing THEN Raised("ConnectionError")
    ELSE CASE slug = "telegram" ->
                TelegramAdapter_get_portals(tables[slug], room_ids)
           [] slug = "whatsapp" ->
                WhatsAppAdapter_get_portals(tables[slug], room_ids)
           [] OTHER ->
                MaxAdapter_get_portals(tables[slug], room_ids)

EmptyMap == [r \in {} |-> BridgePortalInfo(0, <<>>, "", "")]

\* for info in result: portal_map[info.room_id] = info
PutAll(map, infos) ==
    [r \in DOMAIN map \cup {infos[i].room_id : i \in 1..Len(infos)} |->
        IF \E i \in 1..Len(infos) : infos[i].room_id = r
        THEN infos[CHOOSE i \in 1..Len(infos) :
                     /\ infos[i].room_id = r
                     /\ \A j \in 1..Len(infos) : infos[j].room_id = r => j <= i]
        ELSE map[r]]

\* The loop over the gathered results leaving at the first exception.
RECURSIVE MergeResults_break(_, _, _)
MergeResults_break(results, i, map) ==
    IF i > Len(results) THEN map
    ELSE IF ~results[i].ok THEN map
    ELSE MergeResults_break(results, i + 1, PutAll(map, results[i].infos))

\* The loop over the gathered results: an exception is logged and skipped.
RECURSIVE MergeResults(_, _, _)
MergeResults(results, i, map) ==
    IF i > Len(results) THEN map
    ELSE IF ~results[i].ok THEN MergeResults(results, i + 1, map)
    ELSE MergeResults(results, i + 1, PutAll(map, results[i].infos))

\* The orders in which n concurrent tasks may complete.
CompletionOrders(n) ==
    {order \in [1..n -> 1..n] :
        \A i, j \in 1..n : order[i] = order[j] => i = j}

\* The tasks complete in the order they were started.
InOrder(n) == [i \in 1..n |-> i]

\* The results listed in the order the tasks completed.
gather_as_completed(outcomes, order, k) ==
    [i \in 1..k |-> outcomes[order[i]]]

\* asyncio.gather(*tasks, return_exceptions=True) after the first k
\* completions: the outcome of each completed task is stored at the
\* position of its task in the argument list.
RECURSIVE gather(_, _, _)
gather(outcomes, order, k) ==
    IF k = 0 THEN [i \in 1..Len(outcomes) |-> Raised("pending")]
    ELSE [gather(outcomes, order, k - 1) EXCEPT
            ![order[k]] = outcomes[order[k]]]

\* One get_portals task per active adapter, in registry order, gathered
\* when all of them have completed.
GatherPortals(reg, tables, room_ids, failing, order) ==
    gather([i \in 1..Len(reg) |->
                get_portals(reg[i], tables, room_ids, failing)],
           order, Len(reg))

\* _fetch_portal_map
fetch_portal_map(reg, tables, room_ids, failing, order) ==
    [error |-> "",
     map |-> MergeResults(GatherPortals(reg, tables, room_ids, failing, order),
                          1, EmptyMap)]

\* orphaned.sort(key=lambda r: r.last_activity): a stable ascending sort.
RECURSIVE SortByActivity(_, _, _)
SortByActivity(ids, activity, t) ==
    IF t > MaxTs THEN <<>>
    ELSE SelectSeq(ids, LAMBDA r : activity[r] = t)
            \o SortByActivity(ids, activity, t + 1)

\* get_orphaned_rooms: the joined rooms that are not in the portal map,
\* oldest activity first.
get_orphaned_rooms(reg, tables, joined, failing, activity) ==
    IF joined = {} THEN [orphaned_rooms |-> <<>>, total_joined |-> 0]
    ELSE LET portal_map == fetch_portal_map(reg, tables, joined, failing,
                                              InOrder(Len(reg))).map
             orphaned_ids == SelectSeq(RowsOf(joined),
                                       LAMBDA rid : rid \notin DOMAIN portal_map)
         IN [orphaned_rooms |-> SortByActivity(orphaned_ids, activity, 0),
             total_joined |-> Cardinality(joined)]

\* The slugs of the active adapters.
ActiveSlugs(reg) == {reg[i] : i \in 1..Len(reg)}

\* -------------------------------------------------------- room listing
\* page_size: int = Query(50, ge=1, le=200)
PAGE_SIZE_MAX == 200

\* page_size: int = 50, the default of both listing endpoints
PAGE_SIZE_DEFAULT == 50

\* The requesting user, "@me:s"
USER_ID == <<64, 109, 101, 58, 115>>

\* Member rows of room_memberships with the display name of the member's
\* latest m.room.member event: the user and a contact named "Ivan" in
\* Russian; the user and a contact whose display name is "456"; a bridge
\* bot "@tgbot:s" and the contact.
MemberLists ==
    [ivan |-> <<[user_id |-> USER_ID, display_name |-> <<77, 101>>],
                [user_id |-> <<64, 105, 118, 97, 110, 58, 115>>,
                 display_name |-> <<1048, 1074, 1072, 1085>>]>>,
     numeric |-> <<[user_id |-> USER_ID, display_name |-> <<77, 101>>],
                   [user_id |-> <<64, 52, 53, 54, 58, 115>>, display_name |-> <<52, 53, 54>>]>>,
     bot |-> <<[user_id |-> <<64, 116, 103, 98, 111, 116, 58, 115>>,
                display_name |-> <<66, 111, 116>>],
               [user_id |-> <<64, 105, 118, 97, 110, 58, 115>>,
                display_name |-> <<1048, 1074, 1072, 1085>>]>>]

\* Room names of room_stats_state: none, "77" and "Work".
NoName == <<>>

NumericName == <<55, 55>>

WorkName == <<87, 111, 114, 107>>

\* Rows of the latest m.room.message of a room: a greeting in Russian, an
\* empty body, a blank body, the promotional text "Napishite chto-nibud'"
\* (capitalised), " NOW IN MAX! " and an image without a body.
TextRow(body, ts) == [body |-> body, msgtype |-> "m.text", timestamp |-> ts]

Greeting == <<1055, 1088, 1080, 1074, 1077, 1090>>

LastMessageRows ==
    {TextRow(Greeting, 1),
     TextRow(<<>>, 1),
     TextRow(<<32>>, 1),
     TextRow(<<1053, 1072, 1087, 1080, 1096, 1080, 1090, 1077, 32,
                      1095, 1090, 1086, 45, 1085, 1080, 1073, 1091, 1076,
                      1100>>, 1),
     TextRow(<<32, 78, 79, 87, 32, 73, 78, 32, 77, 65, 88, 33, 32>>, 1),
     [body |-> <<>>, msgtype |-> "m.image", timestamp |-> 1]}

\* Portal rows: a telegram user, bot, chat and channel; a whatsapp direct
\* chat and group.
TelegramRows ==
    [user |-> [remote_id |-> <<49>>, kind |-> "user", megagroup |-> FALSE,
               is_bot |-> FALSE],
     bot |-> [remote_id |-> <<50>>, kind |-> "user", megagroup |-> FALSE,
              is_bot |-> TRUE],
     chat |-> [remote_id |-> <<51>>, kind |-> "chat", megagroup |-> FALSE,
               is_bot |-> FALSE],
     channel |-> [remote_id |-> <<52>>, kind |-> "channel", megagroup |-> FALSE,
                  is_bot |-> FALSE]]

WhatsAppRows ==
    [dm |-> [remote_id |-> <<55, 64, 115, 46, 119, 104, 97, 116, 115, 97, 112,
                      112, 46, 110, 101, 116>>,
             kind |-> "dm", megagroup |-> FALSE, is_bot |-> FALSE],
     group |-> [remote_id |-> <<55, 64, 103, 46, 117, 115>>, kind |-> "",
                megagroup |-> FALSE, is_bot |-> FALSE]]

\* get_joined_rooms: the rooms the user has joined, ORDER BY room_id.
get_joined_rooms(d) == RowsOf({r \in Rooms : d[r].joined})

\* get_last_messages for one room: no entry, or the latest m.room.message
\* with a placeholder body for a media message that has none.
get_last_messages(d, rid) ==
    IF d[rid].last = <<>> THEN <<>>
    ELSE LET row == d[rid].last[1]
             placeholder ==
                CASE row.msgtype = "m.image" -> IMAGE_PLACEHOLDER
                  [] row.msgtype = "m.file" -> <<91, 70, 105, 108, 101, 93>>
                  [] row.msgtype = "m.video" ->
                        <<91, 86, 105, 100, 101, 111, 93>>
                  [] row.msgtype = "m.audio" ->
                        <<91, 65, 117, 100, 105, 111, 93>>
                  [] OTHER -> <<>>
         IN <<[body |-> IF row.body = <<>> THEN placeholder ELSE row.body,
               timestamp |-> row.timestamp]>>

\* get_room_members_display: the joined members whose user id matches
\* neither '@conn-%' nor '%bot:%', with their display names.
get_room_members_display(d, rid) ==
    SelectSeq(d[rid].members,
              LAMBDA m : /\ ~StartsWith(CONN_PREFIX, m.user_id)
                         /\ ~Contains(BOT_INFIX, m.user_id))

\* The name of a room as get_rooms and get_rooms_filtered resolve it.  When
\* the canonical name is empty or numeric and the room has a portal, the
\* expression portal.display_name is evaluated: BridgePortalInfo has no
\* such attribute and the request fails with AttributeError.
ResolveName(d, rid, has_portal, matrix_user_id) ==
    LET name == d[rid].name
        unnamed == name = <<>> \/ isdigit(name)
        contacts ==
            SelectSeq(get_room_members_display(d, rid),
                      LAMBDA c : /\ c.user_id # matrix_user_id
                                 /\ c.display_name # <<>>
                                 /\ ~isdigit(c.display_name))
        named == IF unnamed /\ d[rid].members_count <= 3 /\ contacts # <<>>
                 THEN contacts[1].display_name
                 ELSE name
    IN IF unnamed /\ has_portal
       THEN [error |-> "AttributeError", name |-> <<>>]
       ELSE [error |-> "",
             name |-> IF named # <<>> /\ isdigit(named) /\ has_portal
                      THEN CONTACT_PREFIX \o named
                      ELSE IF named = <<>> THEN RoomIdStr(rid) ELSE named]

\* ChatApiRoom(...): bridge_slug and room_type are "" where the code has
\* None, last_message is empty or holds the one LastMessage.
ChatApiRoom(d, portal_map, rid, name) ==
    [room_id |-> rid,
     name |-> name,
     bridge_slug |-> IF rid \in DOMAIN portal_map
                     THEN portal_map[rid].bridge_slug ELSE "",
     room_type |-> IF rid \in DOMAIN portal_map
                   THEN portal_map[rid].room_type ELSE "",
     remote_id |-> IF rid \in DOMAIN portal_map
                   THEN portal_map[rid].remote_id ELSE <<>>,
     members_count |-> d[rid].members_count,
     last_message |-> get_last_messages(d, rid)]

\* _is_system_only
is_system_only(room) ==
    IF room.last_message = <<>> THEN TRUE
    ELSE LET body == lower(strip(room.last_message[1].body))
         IN body = <<>> \/ \E pattern \in SYSTEM_MESSAGE_PATTERNS :
                                Contains(pattern, body)

\* The sort key compared without lower-casing the name.
KeyLess_cased(a, b) ==
    LET ta == IF a.last_message = <<>> THEN 0 ELSE a.last_message[1].timestamp
        tb == IF b.last_message = <<>> THEN 0 ELSE b.last_message[1].timestamp
    IN ta > tb \/ (ta = tb /\ StrLess(a.name, b.name))

\* The sort key (-timestamp, name.lower()) of a room is below another's.
KeyLess(a, b) ==
    LET ta == IF a.last_message = <<>> THEN 0 ELSE a.last_message[1].timestamp
        tb == IF b.last_message = <<>> THEN 0 ELSE b.last_message[1].timestamp
    IN ta > tb \/ (ta = tb /\ StrLess(lower(a.name), lower(b.name)))

\* rooms.sort(key=...): ascending by key, equal keys in their given order.
RECURSIVE SortRooms(_)
SortRooms(rooms) ==
    IF rooms = <<>> THEN <<>>
    ELSE LET least(i) == \A j \in 1..Len(rooms) : ~KeyLess(rooms[j], rooms[i])
             i == CHOOSE k \in 1..Len(rooms) :
                    least(k) /\ \A j \in 1..(k - 1) : ~least(j)
         IN <<rooms[i]>> \o SortRooms(SubSeq(rooms, 1, i - 1)
                                        \o SubSeq(rooms, i + 1, Len(rooms)))

\* The slice taken one element too late.
PySlice_late(s, start, end) ==
    LET clamp(i) == IF i < 0 THEN Max(i + Len(s), 0) ELSE Min(i, Len(s))
    IN SubSeq(s, clamp(start) + 2, clamp(end))

\* rooms[start:end] of a Python list: a negative index counts from the end
\* and every index is clamped to the list.
PySlice(s, start, end) ==
    LET clamp(i) == IF i < 0 THEN Max(i + Len(s), 0) ELSE Min(i, Len(s))
    IN SubSeq(s, clamp(start) + 1, clamp(end))

\* The response of a listing that could not be produced.
Unlisted(status, error, accessed, ids) ==
    [status |-> status, error |-> error, accessed |-> accessed,
     candidates |-> ids, kept |-> {}, names |-> <<>>, rooms |-> <<>>,
     total |-> 0, has_more |-> FALSE, start |-> 0]

\* Steps 5 to 10 of get_rooms, the same statements as steps 5 to 10 of
\* get_rooms_filtered: build the rooms of `ids`, drop the system-only
\* ones, search, sort and cut the page.
BuildListing(d, portal_map, ids, matrix_user_id, search, page, page_size) ==
    LET resolved == [i \in 1..Len(ids) |->
                        ResolveName(d, ids[i], ids[i] \in DOMAIN portal_map,
                                    matrix_user_id)]
        built == [i \in 1..Len(ids) |->
                    ChatApiRoom(d, portal_map, ids[i], resolved[i].name)]
        kept == SelectSeq(built, LAMBDA r : ~is_system_only(r))
        found == IF search # <<>>
                 THEN SelectSeq(kept, LAMBDA r :
                                    Contains(lower(search), lower(r.name)))
                 ELSE kept
        rooms == SortRooms(found)
        total == Len(rooms)
        start == (page - 1) * page_size
        end == start + page_size
    IN IF \E i \in 1..Len(ids) : resolved[i].error # ""
       THEN Unlisted("error", "AttributeError", TRUE, ids)
       ELSE [status |-> "ok", error |-> "", accessed |-> TRUE,
             candidates |-> ids,
             kept |-> {kept[i].room_id : i \in 1..Len(kept)},
             names |-> [i \in 1..Len(ids) |-> built[i].name],
             rooms |-> PySlice(rooms, start, end),
             total |-> total,
             has_more |-> end < total,
             start |-> start]

\* The bridge filter keeping the rooms that have no portal.
FilterBySlug_open(ids, portal_map, bridge_slug) ==
    IF bridge_slug # ""
    THEN SelectSeq(ids, LAMBDA rid :
                    rid \in DOMAIN portal_map
                        => portal_map[rid].bridge_slug = bridge_slug)
    ELSE ids

\* 3. Filter by bridge_slug
FilterBySlug(ids, portal_map, bridge_slug) ==
    IF bridge_slug # ""
    THEN SelectSeq(ids, LAMBDA rid :
                    /\ rid \in DOMAIN portal_map
                    /\ portal_map[rid].bridge_slug = bridge_slug)
    ELSE ids

\* 4. Filter by room_type
FilterByType(ids, portal_map, room_types) ==
    IF room_types # {}
    THEN SelectSeq(ids, LAMBDA rid :
                    /\ rid \in DOMAIN portal_map
                    /\ portal_map[rid].room_type \in room_types)
    ELSE ids

\* get_rooms
get_rooms(d, reg, tables, matrix_user_id, bridge_slug, room_types, search, page, page_size) ==
    LET joined_room_ids == get_joined_rooms(d)
        portal_map == fetch_portal_map(reg, tables, Range(joined_room_ids),
                                       {}, InOrder(Len(reg))).map
        ids == FilterByType(FilterBySlug(joined_room_ids, portal_map,
                                         bridge_slug),
                            portal_map, room_types)
    IN IF joined_room_ids = <<>> THEN Unlisted("ok", "", TRUE, <<>>)
       ELSE BuildListing(d, portal_map, ids, matrix_user_id, search, page,
                         page_size)

\* Every room type checked against show_private.
FILTER_MAP_private(room_type) == "show_private"

\* _FILTER_MAP.get(portal.room_type, "show_private")
FILTER_MAP(room_type) ==
    CASE room_type = "dm" -> "show_private"
      [] room_type = "group" -> "show_groups"
      [] room_type = "channel" -> "show_channels"
      [] room_type = "bot" -> "show_bots"
      [] OTHER -> "show_private"

\* rules_map = {r.bridge_slug: r for r in rules}: the slugs that have a
\* rule, and for such a slug the last rule that names it.
RuledSlugs(rules) == {rules[i].bridge_slug : i \in 1..Len(rules)}

rules_map(rules, slug) ==
    rules[SetMax({i \in 1..Len(rules) : rules[i].bridge_slug = slug})]

\* get_rooms_filtered
get_rooms_filtered(d, reg, tables, matrix_user_id, rules, search, page, page_size) ==
    LET joined_room_ids == get_joined_rooms(d)
        portal_map == fetch_portal_map(reg, tables, Range(joined_room_ids),
                                       {}, InOrder(Len(reg))).map
        filtered_ids ==
            SelectSeq(joined_room_ids, LAMBDA rid :
                /\ rid \in DOMAIN portal_map
                /\ portal_map[rid].bridge_slug \in RuledSlugs(rules)
                /\ rules_map(rules, portal_map[rid].bridge_slug)
                        [FILTER_MAP(portal_map[rid].room_type)])
    IN IF joined_room_ids = <<>> THEN Unlisted("ok", "", TRUE, <<>>)
       ELSE BuildListing(d, portal_map, filtered_ids, matrix_user_id, search,
                         page, page_size)

\* FilterRule(bridge_slug, ...) showing the room types of `shown`.
FilterRule(slug, shown) ==
    [bridge_slug |-> slug,
     show_private |-> "show_private" \in shown,
     show_groups |-> "show_groups" \in shown,
     show_channels |-> "show_channels" \in shown,
     show_bots |-> "show_bots" \in shown]

ShowFields == {"show_private", "show_groups", "show_channels", "show_bots"}

\* The rule lists a caller of POST /rooms/filter supplies: none, one rule
\* showing everything or a single type, one rule per bridge, and two rules
\* for the same bridge.
RuleLists ==
    {<<>>}
    \cup {<<FilterRule(s, shown)>> :
            s \in {"telegram", "whatsapp"},
            shown \in {ShowFields} \cup {{f} : f \in ShowFields}}
    \cup {<<FilterRule("telegram", a), FilterRule("whatsapp", b)>> :
            a \in {ShowFields, {"show_private"}},
            b \in {ShowFields, {"show_groups"}}}
    \cup {<<FilterRule("telegram", {"show_bots"}),
            FilterRule("telegram", {"show_private"})>>}

\* The pages and page sizes a caller supplies: below, inside and above the
\* range the GET route accepts.
Pages == 0..MaxPage

PageSizes == {0, 1, 2, PAGE_SIZE_MAX, PAGE_SIZE_MAX + 1}

\* The query of GET /rooms with every parameter at its default.
DefaultQuery ==
    [bridge_slug |-> "", room_types |-> {}, rules |-> <<>>, search |-> <<>>,
     page |-> 1, page_size |-> PAGE_SIZE_DEFAULT]

\* The queries of GET /rooms: the filters, the paging and a search for "w".
ListQueries ==
    {[DefaultQuery EXCEPT !.bridge_slug = s, !.room_types = T] :
        s \in {"", "telegram", "whatsapp"},
        T \in {{}, {"dm"}, {"group", "channel"}, {"bot"}}}
    \cup {[DefaultQuery EXCEPT !.page = p, !.page_size = n] :
            p \in Pages, n \in PageSizes}
    \cup {[DefaultQuery EXCEPT !.search = <<119>>]}

\* The bodies of POST /rooms/filter: the rule lists, and the paging under
\* a rule that shows every telegram room.
FilterBodies ==
    {[DefaultQuery EXCEPT !.rules = rs] : rs \in RuleLists}
    \cup {[DefaultQuery EXCEPT !.rules = <<FilterRule("telegram", ShowFields)>>,
                               !.page = p, !.page_size = n] :
            p \in Pages, n \in PageSizes}

\* No listing request is outstanding.
NoLResp ==
    [op |-> "none", query |-> DefaultQuery, status |-> "", error |-> "",
     accessed |-> FALSE, candidates |-> <<>>, kept |-> {}, names |-> <<>>,
     rooms |-> <<>>, total |-> 0, has_more |-> FALSE, start |-> 0]

\* The outcome `res` of operation op for query q.
ListingOutcome(op, q, res) ==
    [op |-> op, query |-> q, status |-> res.status, error |-> res.error,
     accessed |-> res.accessed, candidates |-> res.candidates,
     kept |-> res.kept, names |-> res.names, rooms |-> res.rooms,
     total |-> res.total, has_more |-> res.has_more, start |-> res.start]

\* A room the user has not joined.
NotJoined ==
    [joined |-> FALSE, name |-> <<>>, members_count |-> 0, members |-> <<>>,
     last |-> <<>>,
     place |-> [s \in AdapterSlugs |-> <<>>]]

\* A joined room with its name, members and latest message, and the portal
\* rows the bridge stores hold for it.
JoinedRoom(name, members_count, members, last, place) ==
    [joined |-> TRUE, name |-> name, members_count |-> members_count,
     members |-> members, last |-> last, place |-> place]

\* The portal rows of one room: in no store, in one, or in two.
Place(telegram, whatsapp, max) ==
    [s \in AdapterSlugs |->
        CASE s = "telegram" -> telegram
          [] s = "whatsapp" -> whatsapp
          [] OTHER -> max]

Placements ==
    {Place(<<>>, <<>>, <<>>),
     Place(<<TelegramRows.user>>, <<>>, <<>>),
     Place(<<TelegramRows.bot>>, <<>>, <<>>),
     Place(<<TelegramRows.chat>>, <<>>, <<>>),
     Place(<<TelegramRows.channel>>, <<>>, <<>>),
     Place(<<>>, <<WhatsAppRows.dm>>, <<>>),
     Place(<<>>, <<WhatsAppRows.group>>, <<>>),
     Place(<<TelegramRows.user>>, <<WhatsAppRows.group>>, <<>>),
     Place(<<>>, <<>>, <<TelegramRows.user>>)}

\* Named rooms with a greeting as latest message, over every placement.
PortalRooms ==
    {NotJoined} \cup
    {JoinedRoom(WorkName, 4, MemberLists.ivan, <<TextRow(Greeting, 1)>>, p) :
        p \in Placements}

\* Named telegram rooms over every latest message, and without one.
MessageRooms ==
    {NotJoined} \cup
    {JoinedRoom(WorkName, 4, MemberLists.ivan, last,
                Place(<<TelegramRows.user>>, <<>>, <<>>)) :
        last \in {<<>>} \cup {<<row>> : row \in LastMessageRows}}

\* Rooms over the canonical names, member counts and member lists, with a
\* telegram portal and without.
NameRooms ==
    {NotJoined,
     JoinedRoom(WorkName, 4, MemberLists.ivan, <<TextRow(Greeting, 1)>>,
                Place(<<TelegramRows.user>>, <<>>, <<>>))}
    \cup {JoinedRoom(name, 2, MemberLists[m], <<TextRow(Greeting, 1)>>,
                     Place(<<>>, <<>>, <<>>)) :
            name \in {NoName, NumericName}, m \in {"ivan", "numeric", "bot"}}
    \cup {JoinedRoom(NoName, 4, MemberLists.ivan, <<TextRow(Greeting, 1)>>,
                     Place(<<>>, <<>>, <<>>)),
          JoinedRoom(NoName, 2, MemberLists.ivan, <<TextRow(Greeting, 1)>>,
                     Place(<<TelegramRows.user>>, <<>>, <<>>)),
          JoinedRoom(NumericName, 4, MemberLists.ivan,
                     <<TextRow(Greeting, 1)>>,
                     Place(<<TelegramRows.user>>, <<>>, <<>>))}

\* Telegram rooms named "Work" and "a" whose latest message has timestamp 1
\* or 2: the rooms a listing has to order.
OrderRooms ==
    {NotJoined} \cup
    {JoinedRoom(name, 4, MemberLists.ivan, <<TextRow(Greeting, ts)>>,
                Place(<<TelegramRows.user>>, <<>>, <<>>)) :
        name \in {WorkName, <<97>>}, ts \in 1..(MaxTs + 1)}

\* The columns of the canonical store's tables for a room.
StoreRow(room) ==
    [joined |-> room.joined, name |-> room.name,
     members_count |-> room.members_count, members |-> room.members,
     last |-> room.last]

\* No listing request is outstanding and the stores hold no room.
ListingIdle ==
    /\ portal_cols = [s \in AdapterSlugs |-> [r \in Rooms |-> DefaultRow]]
    /\ db = [r \in Rooms |-> StoreRow(NotJoined)]
    /\ lresp = NoLResp

\* The caller has taken the outcome of its listing request.
DeliverListing ==
    /\ lresp.op # "none"
    /\ lresp' = NoLResp
    /\ UNCHANGED <<store, streamVars, portalVars, messageVars, serviceVars, portal_cols, db>>

\* GET /v1/rooms: the framework rejects page < 1 and a page_size outside
\* 1..200 before the handler runs.
CallListRooms ==
    /\ lresp.op = "none"
    /\ \E q \in ListQueries :
        lresp' =
            IF q.page < 1 \/ q.page_size < 1 \/ q.page_size > PAGE_SIZE_MAX
            THEN ListingOutcome("list_rooms", q,
                                Unlisted("rejected", "", FALSE, <<>>))
            ELSE IF ~synapse_up
            THEN ListingOutcome("list_rooms", q,
                                Unlisted("error", "OSError", TRUE, <<>>))
            ELSE ListingOutcome("list_rooms", q,
                                get_rooms(db, registry, portals, USER_ID,
                                          q.bridge_slug, q.room_types,
                                          q.search, q.page, q.page_size))
    /\ UNCHANGED <<store, streamVars, portalVars, messageVars, serviceVars, portal_cols, db>>

\* POST /v1/rooms/filter: FilterRequest declares page and page_size as
\* plain integers, so every value reaches the handler.  get_joined_rooms
\* raises when the canonical store does not answer.
CallFilterRooms ==
    /\ lresp.op = "none"
    /\ \E q \in FilterBodies :
        lresp' =
            IF ~synapse_up
            THEN ListingOutcome("filter_rooms", q,
                                Unlisted("error", "OSError", TRUE, <<>>))
            ELSE ListingOutcome("filter_rooms", q,
                                get_rooms_filtered(db, registry, portals,
                                                   USER_ID, q.rules, q.search,
                                                   q.page, q.page_size))
    /\ UNCHANGED <<store, streamVars, portalVars, messageVars, serviceVars, portal_cols, db>>

\* ------------------------------------------------------- message stats
\* The m.room.message events of one room counted per sender and UTC day:
\* none; 3 from "@conn-a:s" and 5 from "@ivan:s" on day 1; messages from
\* two connection users, from "@connor:s" and, on day 2, from "@ivan:s";
\* messages on day 2 only.
StatProfiles ==
    {{},
     {[sender |-> <<64, 99, 111, 110, 110, 45, 97, 58, 115>>, day |-> 1,
       cnt |-> 3],
      [sender |-> <<64, 105, 118, 97, 110, 58, 115>>, day |-> 1, cnt |-> 5]},
     {[sender |-> <<64, 99, 111, 110, 110, 45, 97, 58, 115>>, day |-> 1,
       cnt |-> 1],
      [sender |-> <<64, 99, 111, 110, 110, 45, 98, 58, 115>>, day |-> 1,
       cnt |-> 2],
      [sender |-> <<64, 99, 111, 110, 110, 111, 114, 58, 115>>, day |-> 1,
       cnt |-> 4],
      [sender |-> <<64, 105, 118, 97, 110, 58, 115>>, day |-> 2, cnt |-> 7]},
     {[sender |-> <<64, 99, 111, 110, 110, 45, 97, 58, 115>>, day |-> 2,
       cnt |-> 2]}}

\* count_messages_by_room_sender(pool, start_ts, end_ts): one row per room
\* and sender with the number of its messages in [start_ts, end_ts).  Time
\* is counted in days here.
count_messages_by_room_sender(rows, start_ts, end_ts) ==
    {[room_id |-> r.room_id, sender |-> r.sender, cnt |-> r.cnt] :
        r \in {x \in rows : start_ts <= x.day /\ x.day < end_ts}}

\* 3. Resolve room_id -> bridge_slug via bridge adapters: the adapters are
\* asked one after the other in registry order, a failing one is logged
\* and skipped, a later one overwrites an earlier one.
RECURSIVE room_to_bridge(_, _, _, _)
room_to_bridge(reg, tables, room_ids, i) ==
    IF i = 0 THEN [r \in {} |-> ""]
    ELSE LET earlier == room_to_bridge(reg, tables, room_ids, i - 1)
             res == get_portals(reg[i], tables, room_ids, {})
             found == IF res.ok
                      THEN {res.infos[k].room_id : k \in 1..Len(res.infos)}
                      ELSE {}
         IN [r \in DOMAIN earlier \cup found |->
                IF r \in found THEN reg[i] ELSE earlier[r]]

\* Every sender that starts with "@conn" counted as sent.
is_sent_loose(sender) == StartsWith(<<64, 99, 111, 110, 110>>, sender)

\* c["sender"].startswith("@conn-")
is_sent(sender) == StartsWith(CONN_PREFIX, sender)

\* The sum of the cnt fields of a set of rows.
RECURSIVE SumCnt(_)
SumCnt(rows) ==
    IF rows = {} THEN 0
    ELSE LET r == CHOOSE x \in rows : TRUE
         IN r.cnt + SumCnt(rows \ {r})

\* get_message_stats for the day `date`; bridges is the list of
\* {bridge, sent, received} as a function of the bridge slug.
get_message_stats(reg, tables, rows, date) ==
    LET counts == count_messages_by_room_sender(rows, date, date + 1)
        room_ids == {c.room_id : c \in counts}
        bridge_of == room_to_bridge(reg, tables, room_ids, Len(reg))
        known == {c \in counts : c.room_id \in DOMAIN bridge_of}
        of(slug) == {c \in known : bridge_of[c.room_id] = slug}
        bridges ==
            [slug \in {bridge_of[c.room_id] : c \in known} |->
                [sent |-> SumCnt({c \in of(slug) : is_sent(c.sender)}),
                 received |-> SumCnt({c \in of(slug) : ~is_sent(c.sender)})]]
    IN [op |-> "message_stats", status |-> "ok", date |-> date,
        bridges |-> bridges,
        total_sent |->
            SumCnt({[bridge |-> s, cnt |-> bridges[s].sent] :
                        s \in DOMAIN bridges}),
        total_received |->
            SumCnt({[bridge |-> s, cnt |-> bridges[s].received] :
                        s \in DOMAIN bridges})]

\* GET /v1/stats/messages?date=...: a query that cannot reach the
\* canonical store raises, and the request fails.
CallMessageStats ==
    /\ \E date \in 1..3 :
        sresp' = IF synapse_up
                 THEN get_message_stats(registry, portals, daily, date)
                 ELSE [op |-> "message_stats", status |-> "error",
                       date |-> date, bridges |-> <<>>, total_sent |-> 0,
                       total_received |-> 0]
    /\ UNCHANGED <<store, streamVars, portalVars, messageVars, listingVars,
                   cresp, daily, synapse_up, query_raised>>

\* No call is outstanding.
NoResp ==
    [op |-> "none", rooms |-> {}, slug |-> "", failing |-> {},
     order |-> <<>>, error |-> "", map |-> EmptyMap, list |-> <<>>,
     total_joined |-> 0]

\* A bridge creates a portal for a room.
PortalInsert ==
    /\ resp.op = "none"
    /\ \E slug \in AdapterSlugs, r \in Rooms :
        /\ r \notin portals[slug]
        /\ portals' = [portals EXCEPT ![slug] = @ \cup {r}]
    /\ UNCHANGED <<store, streamVars, requestVars, registry, resp>>

\* The caller has taken the outcome of its call.
Deliver ==
    /\ resp.op # "none"
    /\ resp' = NoResp
    /\ UNCHANGED <<store, streamVars, requestVars, registry, portals>>

\* A caller resolves the portals of a room set; the adapters' queries run
\* concurrently and complete in any order.
CallFetchPortalMap ==
    /\ resp.op = "none"
    /\ \E room_ids \in SUBSET Rooms, failing \in SUBSET ActiveSlugs(registry),
          order \in CompletionOrders(Len(registry)) :
        LET res == fetch_portal_map(registry, portals, room_ids, failing, order)
        IN resp' = [NoResp EXCEPT !.op = "fetch_portal_map",
                                  !.rooms = room_ids,
                                  !.failing = failing,
                                  !.order = order,
                                  !.error = res.error,
                                  !.map = res.map]
    /\ UNCHANGED <<store, streamVars, requestVars, registry, portals>>

\* A caller asks one active adapter for the portals of a room set.
CallGetPortals ==
    /\ resp.op = "none"
    /\ \E i \in 1..Len(registry), room_ids \in SUBSET Rooms, down \in BOOLEAN :
        LET failing == IF down THEN {registry[i]} ELSE {}
            res == get_portals(registry[i], portals, room_ids, failing)
        IN resp' = [NoResp EXCEPT !.op = "get_portals",
                                  !.rooms = room_ids,
                                  !.slug = registry[i],
                                  !.failing = failing,
                                  !.error = res.error,
                                  !.list = res.infos]
    /\ UNCHANGED <<store, streamVars, requestVars, registry, portals>>

\* GET /rooms/orphaned for a user whose joined rooms are `joined`.
CallGetOrphanedRooms ==
    /\ resp.op = "none"
    /\ \E joined \in SUBSET Rooms, failing \in SUBSET ActiveSlugs(registry) :
       \E activity \in [joined -> 0..MaxTs] :
        LET res == get_orphaned_rooms(registry, portals, joined, failing,
                                      activity)
        IN resp' = [NoResp EXCEPT !.op = "get_orphaned_rooms",
                                  !.rooms = joined,
                                  !.failing = failing,
                                  !.list = res.orphaned_rooms,
                                  !.total_joined = res.total_joined]
    /\ UNCHANGED <<store, streamVars, requestVars, registry, portals>>

\* The bridges of the configuration, in its order.
ConfiguredBridges == <<"whatsapp", "telegram", "discord", "max">>

\* PoolManager.available_bridges: the configured bridges whose pools
\* connected at start-up, in configuration order.
AvailableBridgeLists ==
    {SelectSeq(ConfiguredBridges, LAMBDA slug : slug \in connected) :
        connected \in SUBSET ConfigSlugs}

InitPortal ==
    /\ store = <<>>
    /\ pc = "idle"
    /\ since = 0
    /\ last_stream = 0
    /\ events_found = FALSE
    /\ batch = <<>>
    /\ emitted = <<>>
    /\ disconnected = FALSE
    /\ elapsed = 0
    /\ hbEmitted = FALSE
    /\ lastSleep = 0
    /\ tickQueries = 0
    /\ startLen = 0
    /\ sinceMutation = 0
    /\ sinceHb = 0
    /\ \E available_bridges \in AvailableBridgeLists :
        registry = BridgeRegistry_init(available_bridges)
    /\ portals = [s \in AdapterSlugs |-> {}]
    /\ resp = NoResp
    /\ MessagesIdle
    /\ ServicesIdle
    /\ ListingIdle

NextPortal ==
    \/ PortalInsert
    \/ CallFetchPortalMap
    \/ CallGetPortals
    \/ CallGetOrphanedRooms
    \/ Deliver

\* Portal resolution over the bridge stores.
SpecPortal == InitPortal /\ [][NextPortal]_vars

StreamStep ==
    \/ Check
    \/ QueryMessages
    \/ QueryReactions
    \/ QueryEdits
    \/ QueryRedactions
    \/ Yield
    \/ Heartbeat

Init ==
    /\ store = <<>>
    /\ pc = "idle"
    /\ since = 0
    /\ last_stream = 0
    /\ events_found = FALSE
    /\ batch = <<>>
    /\ emitted = <<>>
    /\ disconnected = FALSE
    /\ elapsed = 0
    /\ hbEmitted = FALSE
    /\ lastSleep = 0
    /\ tickQueries = 0
    /\ startLen = 0
    /\ sinceMutation = 0
    /\ sinceHb = 0
    /\ registry = BridgeRegistry_init(ConfiguredBridges)
    /\ portals = [s \in AdapterSlugs |-> {}]
    /\ resp = NoResp
    /\ MessagesIdle
    /\ ServicesIdle
    /\ ListingIdle

Next ==
    \/ Write
    \/ Start
    \/ Cancel
    \/ StreamStep
    \/ SleepLate

\* The stream against a store with concurrent writers, the client staying
\* connected; sleeps overrun.
Spec == Init /\ [][Next]_vars

\* A writer that stops after MaxTimedWrites events.
WriteFew ==
    /\ Len(store) < MaxTimedWrites
    /\ Write

\* A writer that appends a message, or a reaction to the latest event, and
\* stops after MaxTimedWrites events.
WriteTimed ==
    /\ Len(store) < MaxTimedWrites
    /\ \E e \in {[kind |-> "message", target |-> 0],
                 [kind |-> "reaction", target |-> Len(store)]} :
        store' = Append(store, e)
    /\ UNCHANGED streamVars
    /\ UNCHANGED <<portalVars, requestVars>>

NextTimed ==
    \/ WriteTimed
    \/ Start
    \/ Cancel
    \/ StreamStep
    \/ SleepOnTime

\* The stream with sleeps that take exactly their interval, the client
\* staying connected.
SpecTimed == Init /\ [][NextTimed]_vars

NextLive ==
    \/ WriteFew
    \/ Start
    \/ Disconnect
    \/ Cancel
    \/ StreamStep
    \/ SleepLate

\* The event loop keeps running the generator: every step of the stream
\* that is enabled is eventually taken, and every sleep ends.
SpecLive ==
    /\ Init
    /\ [][NextLive]_vars
    /\ WF_vars(StreamStep)
    /\ WF_vars(SleepLate)

\* The stream is not running.
StreamIdle ==
    /\ pc = "idle"
    /\ since = 0
    /\ last_stream = 0
    /\ events_found = FALSE
    /\ batch = <<>>
    /\ emitted = <<>>
    /\ disconnected = FALSE
    /\ elapsed = 0
    /\ hbEmitted = FALSE
    /\ lastSleep = 0
    /\ tickQueries = 0
    /\ startLen = 0
    /\ sinceMutation = 0
    /\ sinceHb = 0

\* The bridge stores are empty and no portal call is outstanding.
PortalsIdle ==
    /\ registry = BridgeRegistry_init(ConfiguredBridges)
    /\ portals = [s \in AdapterSlugs |-> {}]
    /\ resp = NoResp

\* The adapters' classifiers over the source values of ClassifierInputs.
SpecClassify == Init /\ [][CallResolveType]_vars

InitMessages ==
    /\ store = <<>>
    /\ StreamIdle
    /\ PortalsIdle
    /\ MessagesIdle
    /\ ServicesIdle
    /\ ListingIdle

NextMessages ==
    \/ WriteMessage
    \/ CallGetMessages
    \/ CallStreamMessages
    \/ CallPageBackAndForth
    \/ DeliverMessages

\* Message requests against a room whose events are written between them.
SpecMessages == InitMessages /\ [][NextMessages]_vars

\* The stores of a listing scenario: every room drawn from one family.
InitListing ==
    /\ store = <<>>
    /\ StreamIdle
    /\ MessagesIdle
    /\ ServicesIdle
    /\ registry = BridgeRegistry_init(ConfiguredBridges)
    /\ resp = NoResp
    /\ lresp = NoLResp
    /\ \E family \in {PortalRooms, MessageRooms, NameRooms, OrderRooms} :
       \E rooms \in [Rooms -> family] :
        /\ db = [r \in Rooms |-> StoreRow(rooms[r])]
        /\ portals = [s \in AdapterSlugs |->
                        {r \in Rooms : rooms[r].place[s] # <<>>}]
        /\ portal_cols = [s \in AdapterSlugs |->
                            [r \in Rooms |->
                                IF rooms[r].place[s] # <<>>
                                THEN rooms[r].place[s][1]
                                ELSE DefaultRow]]

NextListing ==
    \/ CallListRooms
    \/ CallFilterRooms
    \/ DeliverListing

\* Listing requests against stores that do not change.
SpecListing == InitListing /\ [][NextListing]_vars

\* No request is outstanding.
NoRequest ==
    /\ mresp.op = "none"
    /\ lresp.op = "none"
    /\ sresp.op = "none"

\* With no stream open, one request at a time is made while the canonical
\* store is down, and its outcome is taken before the next.
RequestInOutage ==
    /\ ~synapse_up
    /\ pc = "idle"
    /\ NoRequest
    /\ \/ CallListRooms
       \/ CallFilterRooms
       \/ CallGetMessages
       \/ CallMessageStats

\* The caller has taken the outcome of its stats request.
DeliverStats ==
    /\ sresp.op # "none"
    /\ sresp' = [op |-> "none"]
    /\ UNCHANGED <<store, streamVars, portalVars, messageVars, listingVars,
                   cresp, daily, synapse_up, query_raised>>

NextOutage ==
    \/ WriteFew
    \/ Start
    \/ StreamStep
    \/ SleepLate
    \/ SynapseDown
    \/ QueryRaises
    \/ RequestInOutage
    \/ DeliverListing
    \/ DeliverMessages
    \/ DeliverStats

\* The canonical store goes down while a stream runs or before one is
\* opened, and requests arrive during the outage.
SpecOutage == Init /\ [][NextOutage]_vars

\* Rooms with counted messages, each in the bridge stores of one placement.
InitStats ==
    /\ store = <<>>
    /\ StreamIdle
    /\ MessagesIdle
    /\ registry = BridgeRegistry_init(ConfiguredBridges)
    /\ resp = NoResp
    /\ lresp = NoLResp
    /\ db = [r \in Rooms |-> StoreRow(NotJoined)]
    /\ cresp = [op |-> "none"]
    /\ sresp = [op |-> "none"]
    /\ synapse_up = TRUE
    /\ query_raised = FALSE
    /\ \E counted \in [Rooms -> StatProfiles], place \in [Rooms -> Placements] :
        /\ daily = UNION {{[room_id |-> r, sender |-> c.sender, day |-> c.day,
                            cnt |-> c.cnt] : c \in counted[r]} : r \in Rooms}
        /\ portals = [s \in AdapterSlugs |->
                        {r \in Rooms : place[r][s] # <<>>}]
        /\ portal_cols = [s \in AdapterSlugs |->
                            [r \in Rooms |->
                                IF place[r][s] # <<>> THEN place[r][s][1]
                                ELSE DefaultRow]]

\* Stats requests against stores that do not change.
SpecStats == InitStats /\ [][CallMessageStats]_vars

\* ------------------------------------------------ properties of the stream
\* The row at position p is one of the four mutation kinds as the per-kind
\* queries select them: not redacted (a redaction itself excepted) and with
\* its relation target present.
IsMutation(st, p) ==
    CASE st[p].kind = "message" -> ~IsRedacted(st, p)
      [] st[p].kind = "redaction" -> st[p].target # 0
      [] OTHER -> ~IsRedacted(st, p) /\ st[p].target # 0

EventName(k) == IF k = "redaction" THEN "redact" ELSE k

\* The mutations above cursor c, in ascending position order.
ExpectedReplay(st, c) ==
    LET ps == SelectSeq(Positions(st), LAMBDA p : p > c /\ IsMutation(st, p))
    IN [i \in 1..Len(ps) |-> [pos |-> ps[i], kind |-> EventName(st[ps[i]].kind)]]

EmittedPos == {emitted[i].pos : i \in 1..Len(emitted)}

BatchPos == {batch[i] : i \in 1..Len(batch)}

\* C1: with the store unchanged since the stream started, a completed tick
\* has emitted exactly the mutations above the starting cursor, each once,
\* in ascending position order.
C1_ReplayExact ==
    (pc \in {"heartbeat", "sleep"} /\ Len(store) = startLen)
        => emitted = ExpectedReplay(store, since)

\* C2: no mutation written while the stream polls is skipped: a mutation
\* written after the start at a position the cursor has reached or passed
\* has been emitted or is in the result being yielded.
C2_NoSkip ==
    \A p \in 1..Len(store) :
        (/\ pc # "idle"
         /\ p > startLen
         /\ p > since
         /\ p <= last_stream
         /\ IsMutation(store, p))
            => p \in EmittedPos \cup BatchPos

\* C3: the emitted positions are strictly increasing and all above the
\* starting cursor, so no mutation is emitted twice and none at or below a
\* position already processed.
C3_NoReshow ==
    /\ \A i \in 1..Len(emitted) : emitted[i].pos > since
    /\ \A i, j \in 1..Len(emitted) : i < j => emitted[i].pos < emitted[j].pos

\* C3 witness: events of two kinds emitted, one of them written while the
\* stream was polling.
C3_Witness ==
    /\ Len(emitted) >= 2
    /\ emitted[1].kind # emitted[2].kind
    /\ emitted[2].pos > startLen

C5_TerminatesOnDisconnect ==
    /\ (disconnected ~> pc = "done")
    /\ [][(disconnected /\ pc = "check" /\ pc' # pc) => pc' = "done"]_vars
    /\ [][pc = "done" => (/\ pc' = "done"
                          /\ emitted' = emitted
                          /\ hbEmitted' = hbEmitted
                          /\ tickQueries' = tickQueries)]_vars
    /\ [][Cancel => pc' = "done"]_vars

\* C5 witness: the stream ended at the disconnection check after it had
\* emitted events.
C5_Witness ==
    /\ pc = "done"
    /\ disconnected
    /\ emitted # <<>>
    /\ tickQueries = 0

\* C6 as stated: a heartbeat is emitted only when no mutation was yielded
\* during the heartbeat interval before it.
C6_IdleHeartbeat ==
    (pc = "sleep" /\ hbEmitted) => sinceMutation >= HEARTBEAT_INTERVAL

\* C6 amended: a heartbeat is emitted only when the heartbeat interval has
\* passed since the previous heartbeat, or since the stream started.
C6_PeriodicHeartbeat ==
    (pc = "sleep" /\ hbEmitted) => sinceHb >= HEARTBEAT_INTERVAL

\* C6 witness: a heartbeat emitted less than a heartbeat interval after a
\* mutation was yielded.
C6_Witness ==
    /\ pc = "sleep"
    /\ hbEmitted
    /\ sinceMutation < HEARTBEAT_INTERVAL

\* ----------------------------------------- properties of portal resolution
\* What the adapter of `slug` returns on its own for the call in resp.
Alone(slug) == get_portals(slug, portals, resp.rooms, resp.failing)

InfosOf(res) == {res.infos[i] : i \in 1..Len(res.infos)}

RoomIdsOf(res) == {res.infos[i].room_id : i \in 1..Len(res.infos)}

MapInfos == {resp.map[r] : r \in DOMAIN resp.map}

\* C7 as stated: _fetch_portal_map returns normally, its map holds every
\* PortalInfo returned by an adapter that did not fail, and nothing of an
\* adapter that failed.
C7_AllSurvivorsKept ==
    resp.op = "fetch_portal_map" =>
        /\ resp.error = ""
        /\ \A i \in 1..Len(registry) :
            /\ Alone(registry[i]).ok => InfosOf(Alone(registry[i])) \subseteq MapInfos
            /\ ~Alone(registry[i]).ok =>
                    \A info \in MapInfos : info.bridge_slug # registry[i]

\* C7 amended: the same, except that a PortalInfo is replaced when an
\* adapter later in the registry that did not fail returned one for the
\* same room.
C7_SurvivorsKeptUnlessOverwritten ==
    resp.op = "fetch_portal_map" =>
        /\ resp.error = ""
        /\ \A i \in 1..Len(registry) :
            /\ Alone(registry[i]).ok =>
                \A info \in InfosOf(Alone(registry[i])) :
                    \/ info \in MapInfos
                    \/ \E j \in (i + 1)..Len(registry) :
                        /\ Alone(registry[j]).ok
                        /\ info.room_id \in RoomIdsOf(Alone(registry[j]))
                        /\ info.room_id \in DOMAIN resp.map
                        /\ resp.map[info.room_id] \in InfosOf(Alone(registry[j]))
            /\ ~Alone(registry[i]).ok =>
                    \A info \in MapInfos : info.bridge_slug # registry[i]

\* C7 witness: one adapter failed while holding a portal of the room set
\* and another adapter's portal is in the returned map.
C7_Witness ==
    /\ resp.op = "fetch_portal_map"
    /\ \E i \in 1..Len(registry) :
        /\ ~Alone(registry[i]).ok
        /\ portals[registry[i]] \cap resp.rooms # {}
    /\ DOMAIN resp.map # {}

\* C8: the keys of the returned map are rooms of the requested set and are
\* exactly the rooms the active adapters return on their own.
C8_KeysAreUnion ==
    resp.op = "fetch_portal_map" =>
        /\ DOMAIN resp.map \subseteq resp.rooms
        /\ DOMAIN resp.map =
             UNION {RoomIdsOf(Alone(registry[i])) : i \in 1..Len(registry)}

\* C8 witness: a map with a key, for a room set that leaves out a room
\* held by an active adapter that answered.
C8_Witness ==
    /\ resp.op = "fetch_portal_map"
    /\ DOMAIN resp.map # {}
    /\ \E i \in 1..Len(registry) :
        /\ Alone(registry[i]).ok
        /\ portals[registry[i]] \ resp.rooms # {}

\* C9: with its store reachable, get_portals of an active adapter does not
\* raise and returns one PortalInfo for each room of the room set that is
\* in its portal table, and no other.
C9_GetPortalsTotal ==
    (resp.op = "get_portals" /\ resp.slug \notin resp.failing) =>
        /\ resp.error = ""
        /\ Len(resp.list) = Cardinality(portals[resp.slug] \cap resp.rooms)
        /\ {resp.list[i].room_id : i \in 1..Len(resp.list)}
                = portals[resp.slug] \cap resp.rooms

\* C10: a joined room is reported as orphaned exactly when no active
\* adapter's store holds a portal for it.
C10_OrphanIffNoPortal ==
    resp.op = "get_orphaned_rooms" =>
        {resp.list[i] : i \in 1..Len(resp.list)}
            = {r \in resp.rooms :
                \A i \in 1..Len(registry) : r \notin portals[registry[i]]}

\* ------------------------------------------ properties of message requests
\* The stream positions of the messages of the response.
Returned == {mresp.messages[i].stream_ordering : i \in 1..Len(mresp.messages)}

\* The room's messages that are not redacted.
LiveMessages ==
    {p \in 1..Len(store) : /\ store[p].kind \in {"message", "edit"}
                           /\ ~IsRedacted(store, p)}

\* A page request that was served.
Served == mresp.op = "get_messages" /\ mresp.status = "ok"

\* S is made of the n greatest members of T, or of all of T if it has fewer.
GreatestOf(S, T, n) ==
    /\ S \subseteq T
    /\ Cardinality(S) = Min(n, Cardinality(T))
    /\ \A p \in S, q \in T \ S : q < p

\* S is made of the n smallest members of T, or of all of T if it has fewer.
SmallestOf(S, T, n) ==
    /\ S \subseteq T
    /\ Cardinality(S) = Min(n, Cardinality(T))
    /\ \A p \in S, q \in T \ S : p < q

\* C11: a message request that sets both before and after is rejected and
\* no query is issued against the store for it.
C11_BothCursorsRejected ==
    (mresp.op = "get_messages" /\ mresp.before # None /\ mresp.after # None)
        => (mresp.status = "rejected" /\ mresp.queries = 0)

C14_CursorsNullWhenEmpty ==
    Served =>
        /\ (Returned # {} => /\ mresp.before_cursor = SetMin(Returned)
                             /\ mresp.after_cursor = SetMax(Returned))
        /\ (Returned = {} => /\ mresp.before_cursor = None
                             /\ mresp.after_cursor = None)

\* C14 amended: the cursors are the minimum and the maximum returned stream
\* position; when the page is empty before_cursor is null and after_cursor
\* is the after value the caller supplied, null if it supplied none.
C14_CursorsEchoAfterWhenEmpty ==
    Served =>
        /\ (Returned # {} => /\ mresp.before_cursor = SetMin(Returned)
                             /\ mresp.after_cursor = SetMax(Returned))
        /\ (Returned = {} => /\ mresp.before_cursor = None
                             /\ mresp.after_cursor = mresp.after)

\* C14 witness: an empty page for a request that supplied after, against a
\* room that has live messages.
C14_Witness ==
    /\ Served
    /\ mresp.messages = <<>>
    /\ mresp.after # None
    /\ mresp.before = None
    /\ LiveMessages # {}

\* C15 as stated: paging back from X and forward again reproduces the page
\* before X.
C15_RoundTrip ==
    mresp.op = "page_back_and_forth" => EventIds(mresp) = mresp.first

\* C15 amended: the same when the preceding page is not empty; the two
\* pages then share no message and no live message lies between them.
C15_RoundTripAfterNonEmptyPage ==
    (mresp.op = "page_back_and_forth" /\ mresp.preceding # <<>>) =>
        /\ EventIds(mresp) = mresp.first
        /\ Range(mresp.preceding) \cap Range(mresp.first) = {}
        /\ \A p \in LiveMessages :
                ~(/\ SetMax(Range(mresp.preceding)) < p
                  /\ p < SetMin(Range(mresp.first)))

\* C15 witness: a page of two messages reproduced from a preceding page
\* that is not empty.
C15_Witness ==
    /\ mresp.op = "page_back_and_forth"
    /\ mresp.preceding # <<>>
    /\ Len(mresp.first) = 2
    /\ mresp.limit = 2

\* C16: a returned or streamed message is marked edited exactly when an
\* edit that is not redacted targets it; its body is then that of such an
\* edit with the greatest timestamp, and its own body otherwise.
C16_EditOverlay ==
    (Served \/ mresp.op = "stream_messages") =>
        \A i \in 1..Len(mresp.messages) :
            LET item == mresp.messages[i]
                edits == {q \in 1..Len(store) :
                            /\ store[q].kind = "edit"
                            /\ store[q].target = item.event_id
                            /\ ~IsRedacted(store, q)}
            IN /\ item.is_edited <=> edits # {}
               /\ item.is_edited =>
                    /\ item.body \in edits
                    /\ \A q \in edits : store[q].ts <= store[item.body].ts
               /\ ~item.is_edited => item.body = item.event_id

\* C16 witness: a message carrying the body of its edit with the greatest
\* timestamp although a later-written edit of it exists.
C16_Witness ==
    /\ Served \/ mresp.op = "stream_messages"
    /\ \E i \in 1..Len(mresp.messages) :
        /\ mresp.messages[i].is_edited
        /\ \E q \in 1..Len(store) :
            /\ store[q].kind = "edit"
            /\ store[q].target = mresp.messages[i].event_id
            /\ ~IsRedacted(store, q)
            /\ q > mresp.messages[i].body

\* ------------------------------------------ properties of room listings
\* A listing request was made, and one the handler ran for.
Listed == lresp.op \in {"list_rooms", "filter_rooms"}

Handled == Listed /\ lresp.status # "rejected"

\* The rooms the user has joined, and those of them no bridge store holds.
JoinedRooms == {r \in Rooms : db[r].joined}

HasPortalRow(r) == \E s \in AdapterSlugs : r \in portals[s]

\* C12: a listing request whose page is below 1 or whose page size is
\* outside 1..200 is rejected before any store access.
C12_BadPagingRejected ==
    (Listed /\ (\/ lresp.query.page < 1
                \/ lresp.query.page_size < 1
                \/ lresp.query.page_size > PAGE_SIZE_MAX))
        => (lresp.status = "rejected" /\ ~lresp.accessed)

\* The name the fallback chain of the claim gives room r: the canonical
\* name if it is not empty and not numeric; else (no adapter supplies a
\* portal display name) for a room of at most 3 members the display name of
\* the first member other than the requesting user that is not numeric;
\* else the contact label if the name is numeric and a portal is resolved;
\* else the room identifier.
ChainName(r, resolved) ==
    LET name == db[r].name
        others == SelectSeq(db[r].members,
                            LAMBDA m : /\ m.user_id # USER_ID
                                       /\ ~isdigit(m.display_name))
    IN IF name # <<>> /\ ~isdigit(name) THEN name
       ELSE IF db[r].members_count <= 3 /\ others # <<>>
            THEN others[1].display_name
       ELSE IF isdigit(name) /\ resolved THEN CONTACT_PREFIX \o name
       ELSE RoomIdStr(r)

\* C17: a listing resolves the name of every room it builds by the
\* fallback chain.
C17_NameChain ==
    (Handled /\ lresp.candidates # <<>>) =>
        /\ lresp.status = "ok"
        /\ \A i \in 1..Len(lresp.candidates) :
            lresp.names[i] = ChainName(lresp.candidates[i],
                                       HasPortalRow(lresp.candidates[i]))

\* C18: a room that passed the source and type filters is kept exactly
\* when it has a last message whose body is not empty and contains no
\* denylist pattern, letter case ignored.
C18_KeptIffRealMessage ==
    Handled =>
        \A r \in Range(lresp.candidates) :
            r \in lresp.kept <=>
                /\ get_last_messages(db, r) # <<>>
                /\ get_last_messages(db, r)[1].body # <<>>
                /\ \A pattern \in SYSTEM_MESSAGE_PATTERNS :
                    ~Contains(pattern, lower(get_last_messages(db, r)[1].body))

\* C19: under a source filter every returned room has a portal of that
\* source, under a type filter every returned room has a portal of one of
\* those types, and with neither filter every joined room is a candidate,
\* with a portal or without.
C19_FiltersNeedPortal ==
    (lresp.op = "list_rooms" /\ lresp.status = "ok") =>
        /\ lresp.query.bridge_slug # "" =>
            \A i \in 1..Len(lresp.rooms) :
                /\ lresp.rooms[i].bridge_slug = lresp.query.bridge_slug
                /\ lresp.rooms[i].room_id \in portals[lresp.query.bridge_slug]
        /\ lresp.query.room_types # {} =>
            \A i \in 1..Len(lresp.rooms) :
                /\ lresp.rooms[i].room_type \in lresp.query.room_types
                /\ lresp.rooms[i].bridge_slug \in AdapterSlugs
                /\ lresp.rooms[i].room_id
                        \in portals[lresp.rooms[i].bridge_slug]
        /\ (lresp.query.bridge_slug # "" \/ lresp.query.room_types # {}) =>
            \A r \in Range(lresp.candidates) : HasPortalRow(r)
        /\ (lresp.query.bridge_slug = "" /\ lresp.query.room_types = {}) =>
            Range(lresp.candidates) = JoinedRooms

\* C19 witness: a room returned under a source and a type filter while
\* another joined room, which has no portal, is left out.
C19_Witness ==
    /\ lresp.op = "list_rooms"
    /\ lresp.status = "ok"
    /\ lresp.query.bridge_slug # ""
    /\ lresp.query.room_types # {}
    /\ lresp.rooms # <<>>
    /\ \E r \in JoinedRooms : ~HasPortalRow(r)

\* The rule flag the claim assigns to a room type.
ShowFlag(room_type) ==
    CASE room_type = "dm" -> "show_private"
      [] room_type = "group" -> "show_groups"
      [] room_type = "channel" -> "show_channels"
      [] room_type = "bot" -> "show_bots"

\* C20: the filtered listing returns a room only if it has a portal, a
\* rule names the portal's source, and that rule's flag for the portal's
\* room type is true.
C20_FailClosed ==
    (lresp.op = "filter_rooms" /\ lresp.status = "ok") =>
        \A i \in 1..Len(lresp.rooms) :
            LET room == lresp.rooms[i]
            IN /\ room.bridge_slug \in AdapterSlugs
               /\ room.room_id \in portals[room.bridge_slug]
               /\ room.room_type \in {"dm", "group", "channel", "bot"}
               /\ \E k \in 1..Len(lresp.query.rules) :
                    /\ lresp.query.rules[k].bridge_slug = room.bridge_slug
                    /\ lresp.query.rules[k][ShowFlag(room.room_type)]

\* C20 witness: a filtered listing that returns a room and leaves out a
\* joined room that has a portal.
C20_Witness ==
    /\ lresp.op = "filter_rooms"
    /\ lresp.status = "ok"
    /\ lresp.rooms # <<>>
    /\ \E r \in JoinedRooms :
        /\ HasPortalRow(r)
        /\ r \notin Range(lresp.candidates)

\* The timestamp a room is sorted by: that of its last message, 0 without.
SortTs(room) ==
    IF room.last_message = <<>> THEN 0 ELSE room.last_message[1].timestamp

\* The listing request of lresp made again for another page.
Relist(page, page_size) ==
    IF lresp.op = "list_rooms"
    THEN get_rooms(db, registry, portals, USER_ID, lresp.query.bridge_slug,
                   lresp.query.room_types, lresp.query.search, page, page_size)
    ELSE get_rooms_filtered(db, registry, portals, USER_ID, lresp.query.rules,
                            lresp.query.search, page, page_size)

\* The whole list of the request, before pagination.
WholeList == Relist(1, PAGE_SIZE_MAX).rooms

\* C21: the list of a listing before pagination (the first page of a
\* request whose page size covers the total) is ordered by descending
\* last-message timestamp, and rooms of equal timestamp by ascending
\* lower-cased name.
C21_SortedByRecencyThenName ==
    (/\ Handled /\ lresp.status = "ok"
     /\ lresp.query.page = 1 /\ lresp.query.page_size >= lresp.total) =>
        /\ Len(lresp.rooms) = lresp.total
        /\ \A i, j \in 1..Len(lresp.rooms) :
            i < j =>
                \/ SortTs(lresp.rooms[i]) > SortTs(lresp.rooms[j])
                \/ /\ SortTs(lresp.rooms[i]) = SortTs(lresp.rooms[j])
                   /\ ~StrLess(lower(lresp.rooms[j].name),
                               lower(lresp.rooms[i].name))

\* A listing of two rooms of equal timestamp in which "a" precedes "Work"
\* although "Work" is the room the store returns first.
C21_Witness ==
    /\ Handled /\ lresp.status = "ok"
    /\ lresp.query.page = 1 /\ lresp.query.page_size >= lresp.total
    /\ Len(lresp.rooms) >= 2
    /\ SortTs(lresp.rooms[1]) = SortTs(lresp.rooms[2])
    /\ lresp.rooms[1].name = <<97>>
    /\ lresp.rooms[2].name = WorkName
    /\ lresp.rooms[1].room_id > lresp.rooms[2].room_id

\* The pages p, p + 1, ... of the request for page size n, fetched until
\* has_more is false and concatenated.
RECURSIVE PagesFrom(_, _)
PagesFrom(p, n) ==
    LET r == Relist(p, n)
    IN IF r.has_more THEN r.rooms \o PagesFrom(p + 1, n) ELSE r.rooms

\* C22: for page >= 1 and page_size >= 1, page p is elements
\* (p-1)*page_size .. p*page_size-1 of the sorted list, total is the length
\* of that list, has_more says that a later page is not empty, and the
\* pages fetched until has_more is false make up the whole list.
C22_PagesPartitionList ==
    (/\ Handled /\ lresp.status = "ok"
     /\ lresp.query.page >= 1 /\ lresp.query.page_size >= 1) =>
        \A whole \in {WholeList} :
            LET p == lresp.query.page
                n == lresp.query.page_size
                first == Min((p - 1) * n, Len(whole))
                last == Min(p * n, Len(whole))
            IN /\ lresp.total = Len(whole)
               /\ lresp.rooms = [i \in 1..(last - first) |-> whole[first + i]]
               /\ lresp.has_more <=> p * n < Len(whole)
               /\ PagesFrom(1, n) = whole
               /\ \A i, j \in 1..Len(whole) :
                    whole[i].room_id = whole[j].room_id => i = j

\* The second and last page, of one room, of a list of two rooms or more.
C22_Witness ==
    /\ Handled /\ lresp.status = "ok"
    /\ lresp.query.page = 2 /\ lresp.query.page_size = 1
    /\ lresp.total >= 2
    /\ Len(lresp.rooms) = 1
    /\ lresp.rooms[1] = WholeList[2]

\* ----------------------------------------------- properties of adapters
\* The source value of a classification is unknown or the default: a
\* telegram peer type that is none of user, chat, channel; a whatsapp or
\* megabridge room_type that is none of the known ones (whatsapp: and, when
\* empty, a JID without a group or channel pattern); a discord type code
\* that is NULL or none of 0..3; a googlechat row without other_user_id.
UnknownSource(v) ==
    LET known == {"group", "community", "channel", "newsletter", "broadcast",
                  "dm"}
    IN CASE v.variant = "telegram" -> v.code \notin {"user", "chat", "channel"}
         [] v.variant = "whatsapp" ->
                /\ v.code \notin known
                /\ v.code = "" => resolve_type_mega(v.chat_id, "") = "dm"
         [] v.variant = "gmessages" -> v.code \notin known
         [] v.variant = "discord" -> v.dc_type \notin 0..3
         [] v.variant = "googlechat" -> v.other_user_id = <<>>
         [] OTHER -> TRUE

\* C23: every variant's classifier maps every source value into the four
\* canonical kinds, and an unknown or default source value to dm.
C23_UnknownIsDm ==
    cresp.op = "resolve_type" =>
        /\ cresp.room_type \in {"dm", "group", "channel", "bot"}
        /\ UnknownSource(cresp.source) => cresp.room_type = "dm"

\* C24: when the whatsapp room_type column holds a value, the kind is the
\* same for every chat identifier.
C24_FieldDecidesAlone ==
    (/\ cresp.op = "resolve_type"
     /\ cresp.source.variant = "whatsapp"
     /\ cresp.source.code # "") =>
        \A v \in ClassifierInputs :
            (v.variant = "whatsapp" /\ v.code = cresp.source.code)
                => RoomKind(v) = cresp.room_type

\* ---------------------------------------------- properties of the stats
\* The counted rows of one day.
StatRows(date) == {r \in daily : r.day = date}

\* The bridge each counted room of the day is attributed to.
Attributed(date) ==
    room_to_bridge(registry, portals, {r.room_id : r \in StatRows(date)},
                   Len(registry))

\* C25: get_message_stats reports for each bridge sent = the sum of the
\* counts of the '@conn-' senders in the rooms attributed to the bridge and
\* received = the sum of the counts of every other sender there; rooms
\* attributed to no bridge are left out, and total_sent and total_received
\* are the sums over the bridges.
C25_StatsAreSums ==
    (sresp.op = "message_stats" /\ sresp.status = "ok") =>
        LET rows == StatRows(sresp.date)
            bridge_of == Attributed(sresp.date)
            counted == {r \in rows : r.room_id \in DOMAIN bridge_of}
            sent == {r \in counted : StartsWith(CONN_PREFIX, r.sender)}
        IN /\ DOMAIN sresp.bridges = {bridge_of[r.room_id] : r \in counted}
           /\ \A slug \in DOMAIN sresp.bridges :
                /\ sresp.bridges[slug].sent =
                     SumCnt({r \in sent : bridge_of[r.room_id] = slug})
                /\ sresp.bridges[slug].received =
                     SumCnt({r \in counted \ sent :
                                bridge_of[r.room_id] = slug})
           /\ sresp.total_sent = SumCnt(sent)
           /\ sresp.total_received = SumCnt(counted \ sent)

\* '@conn-a' sent 3 and '@ivan' sent 5 in a telegram room, and another room
\* with messages that day belongs to no bridge.
C25_Witness ==
    /\ sresp.op = "message_stats"
    /\ sresp.status = "ok"
    /\ DOMAIN sresp.bridges = {"telegram"}
    /\ sresp.bridges["telegram"] = [sent |-> 3, received |-> 5]
    /\ sresp.total_sent = 3
    /\ sresp.total_received = 5
    /\ \E r \in StatRows(sresp.date) : r.room_id \notin DOMAIN Attributed(sresp.date)

\* --------------------------------------------- properties of an outage
\* C26: while the canonical store is unreachable every operation that
\* reads it ends in a failure the caller sees: a listing, a page of
\* messages and the stats of a day end in an error, and a stream whose
\* query raised ends in an error and not as a stream that has simply come
\* to its end.
C26_OutageSurfaces ==
    /\ (Listed /\ lresp.accessed) => lresp.status = "error"
    /\ (mresp.op = "get_messages" /\ mresp.status # "rejected")
        => mresp.status = "error"
    /\ sresp.op = "message_stats" => sresp.status = "error"
    /\ query_raised => pc = "failed"

\* ------------------------------------- properties of concurrent gathering
\* The place of task i in the order of completion.
CompletedAt(i) == CHOOSE k \in 1..Len(resp.order) : resp.order[k] = i

\* The adapters, by registry index, that answered with a portal of room r.
Claimants(r) ==
    {i \in 1..Len(registry) :
        Alone(registry[i]).ok /\ r \in RoomIdsOf(Alone(registry[i]))}

\* C27: the map of _fetch_portal_map holds at most one PortalInfo per room,
\* and for a room that several adapters answered for it holds the
\* PortalInfo of the one latest in the registry, whatever the order in
\* which the adapters' queries completed.
C27_LaterAdapterWins ==
    resp.op = "fetch_portal_map" =>
        /\ \A a \in MapInfos, b \in MapInfos : a.room_id = b.room_id => a = b
        /\ \A r \in DOMAIN resp.map :
            /\ Claimants(r) # {}
            /\ resp.map[r].room_id = r
            /\ resp.map[r] \in InfosOf(Alone(registry[SetMax(Claimants(r))]))

\* C27 witness: two adapters answered for the same room, and the one
\* earlier in the registry completed after the later one.
C27_Witness ==
    /\ resp.op = "fetch_portal_map"
    /\ \E r \in DOMAIN resp.map :
        \E i \in Claimants(r), j \in Claimants(r) :
            /\ i < j
            /\ CompletedAt(i) > CompletedAt(j)
            /\ resp.map[r].bridge_slug = registry[j]

\* C28: with every store reachable a listing the handler runs for completes
\* without raising, whatever the canonical name of a joined room (empty,
\* numeric, textual) and whether or not an active adapter resolved a
\* portal for it.
C28_ListingsComplete ==
    (Handled /\ synapse_up) => (lresp.status = "ok" /\ lresp.error = "")

\* C29: pagination and the stream agree on which events are messages: no
\* item of a served page is an edit (an m.room.message that replaces an
\* earlier one), and a page that holds the whole history of the room holds
\* exactly the messages a stream started at cursor 0 emits.
C29_PagesHoldNoEdits ==
    Served =>
        /\ \A p \in Returned : store[p].kind # "edit"
        /\ (mresp.before = None /\ mresp.after = None /\ ~mresp.has_more)
            => Returned = Range(get_new_events(store, 0))

\* ------------------------------------------ properties of the poll interval
\* The steps of one tick of the stream: the flag events_found is lowered
\* only at the head of the loop and is down when the first query starts; it
\* goes up exactly when a query returns rows, of whatever kind, so it is up
\* whenever an event is emitted; and the sleep that ends the tick takes the
\* short interval if the flag is up and the poll interval if it is down.
TickStep ==
    /\ (pc = "check" /\ pc' = "messages") => ~events_found'
    /\ (events_found /\ ~events_found') => pc = "check"
    /\ (pc \in {"messages", "reactions", "edits", "redactions"}
            /\ pc' \notin {"done", pc})
        => (events_found' <=> (events_found \/ batch' # <<>>))
    /\ (~events_found /\ events_found') => batch' # <<>>
    /\ emitted' # emitted => events_found'
    /\ (pc = "sleep" /\ pc' = "check")
        => lastSleep' = (IF events_found THEN SHORT_INTERVAL
                         ELSE POLL_INTERVAL)

\* C30: the sleep that ends a tick is the short interval if and only if
\* that tick found at least one mutation of any kind, and the poll interval
\* otherwise; a tick starts with nothing found, so the interval depends on
\* the current tick only.
C30_SleepFollowsTick == [][TickStep]_vars

\* C30 witness: the stream emitted a reaction in an earlier tick, and the
\* tick that just ended found nothing and slept the poll interval.
C30_Witness ==
    /\ pc = "check"
    /\ lastSleep = POLL_INTERVAL
    /\ ~events_found
    /\ emitted # <<>>
    /\ emitted[Len(emitted)].kind = "reaction"

====
